---- MODULE Spec2Model ----
(***************************************************************************)
(* A model of create_system: the lattice generator (src/src/lattice.rs),   *)
(* the atom iterator (src/src/iterator.rs), components and their           *)
(* translation (src/src/system.rs), the cylinder volume                    *)
(* (src/src/volume/cylinder.rs) and create_substrate                       *)
(* (src/src/substrates.rs).                                                *)
(*                                                                         *)
(* Numbers.  The program computes in f64.  Lengths are modelled as         *)
(* integers in thousandths of the length unit, so that the products        *)
(* col*dx, row*dy and the sums of the program are exact; sin and cos of    *)
(* the crystal angle are tabulated in thousandths for the angles the model *)
(* draws.  Replica counts are u64 in the program and stay far below 2^53   *)
(* here, so the conversions u64 -> f64 of the program are exact.           *)
(***************************************************************************)
EXTENDS Integers, Sequences, FiniteSets, TLC

VARIABLES
    entry,      \* lattice.rs: which constructor was called, "new" or "from_size"
    crystal,    \* lattice.rs: the Crystal handed to Lattice::new / from_size
    size,       \* lattice.rs: (size_x, size_y) handed to Lattice::from_size
    req,        \* lattice.rs: (nx, ny) handed to Lattice::new
    builder,    \* lattice.rs: the LatticeBuilder under construction
    lattice,    \* lattice.rs: the Lattice returned by finalize
    lpc,        \* position inside Lattice::from_size / LatticeBuilder::new
    iter,       \* iterator.rs: the AtomIterator
    ret,        \* iterator.rs: what the latest call of next() returned
    yielded,    \* iterator.rs: the records next() has yielded so far, in order
    component,  \* system.rs: the Component at hand
    source,     \* the Lattice or Component as it was before any call of translate
    shifts,     \* the vectors handed to translate so far, in order
    count,      \* system.rs: what Component::num_atoms returned, -1 before the call
    cylinder,   \* cylinder.rs: the Cylinder at hand
    probe,      \* cylinder.rs: the coordinate handed to contains, None before the call
    inside,     \* cylinder.rs: what contains returned
    cbox,       \* cylinder.rs: what calc_box_size returned, None before the call
    fill_type,  \* cylinder.rs: the FillType handed to fill, None before the call
    filling,    \* cylinder.rs: the coordinates fill has collected so far
    draws,      \* the samples the random number generator has handed to fill
    substrate,  \* substrates.rs: the SubstrateConf and the sizes handed to create_substrate
    grid,       \* substrates.rs: the grid of create_graphene, None before it is made
    atom_list,  \* substrates.rs: the atom list of gen_atom_list
    result,     \* substrates.rs: what create_substrate returned, None before it returns
    lhs,        \* system.rs: the Coord on the left of ==
    rhs,        \* system.rs: the Coord on the right of ==
    equal,      \* system.rs: what eq returned
    disc,       \* surface: the state of the Poisson-disc generator
    noise,      \* surface: the state of the blue-noise generator
    out,        \* output.rs: the system handed to write_gromos and the lines written
    first,      \* cylinder.rs: the coordinates of the first of two calls of fill, None before it returns
    menu,       \* define_system.rs, component.rs: the list a user_menu edits and its backup
    component_builder  \* component.rs: the builder new_component is filling in, and its result

latticeVars == <<entry, crystal, size, req, builder, lattice, lpc>>
iterVars == <<iter, ret, yielded>>
compVars == <<component, source, shifts, count>>
cylVars == <<cylinder, probe, inside, cbox, fill_type, filling, draws>>
subVars == <<substrate, grid, atom_list, result>>
eqVars == <<lhs, rhs, equal>>
moreVars == <<eqVars, disc, noise, out, first, menu, component_builder>>
restVars == <<cylVars, subVars, moreVars>>
oldVars == <<entry, crystal, size, req, builder, lattice, iterVars, compVars, cylVars, subVars>>
exceptEq == <<oldVars, disc, noise, out, first, menu, component_builder>>
exceptDisc == <<oldVars, eqVars, noise, out, first, menu, component_builder>>
exceptNoise == <<oldVars, eqVars, disc, out, first, menu, component_builder>>
exceptOut == <<oldVars, eqVars, disc, noise, first, menu, component_builder>>
exceptMenu == <<oldVars, eqVars, disc, noise, out, first, component_builder>>
exceptNewComponent == <<oldVars, eqVars, disc, noise, out, first, menu>>
besidesFirst == <<eqVars, disc, noise, out, menu, component_builder>>
extVars == <<compVars, restVars>>
vars == <<entry, crystal, size, req, builder, lattice, lpc, iter, ret, yielded,
          component, source, shifts, count,
          cylinder, probe, inside, cbox, fill_type, filling, draws,
          substrate, grid, atom_list, result,
          lhs, rhs, equal, disc, noise, out, first, menu, component_builder>>

(***************************************************************************)
(* Bounds of the model.                                                    *)
(***************************************************************************)
MaxLen == 2        \* crystal vector lengths a, b are drawn from 1..MaxLen
MaxN == 6          \* replica counts nx, ny are drawn from 0..MaxN
MaxSizeSteps == 12 \* sizes are drawn in steps of 0.25 up to MaxSizeSteps steps
MaxAtoms == 3      \* a residue template has at most MaxAtoms atoms
MaxPoints == 3     \* a point set has at most MaxPoints points
MaxTranslates == 2 \* translate is called at most MaxTranslates times in a row
SignificandBits == 16 \* width of the modelled float significand (f64 has 53 bits)
MaxFill == 2       \* fill is asked for at most MaxFill coordinates
DrawSteps == 2     \* the random number generator hands out u = k / DrawSteps in [0, 1)
DiscWidth == 6     \* the Poisson-disc area has DiscWidth points along x
DiscHeight == 4    \* the Poisson-disc area has DiscHeight points along y
MaxAttempts == 2   \* the number of candidates tried around one active point
MaxNumber == 3     \* the blue-noise generator is asked for at most MaxNumber points
NumCandidates == 2 \* the number of candidates of one round of the blue-noise generator
MaxResidues == 3   \* a system handed to write_gromos has at most MaxResidues residues

(***************************************************************************)
(* Option<T>: None is the empty sequence, Some(x) the sequence <<x>>.      *)
(***************************************************************************)
None == <<>>
Some(x) == <<x>>
IsSome(o) == Len(o) = 1
Unwrap(o) == o[1]

(***************************************************************************)
(* Coord                                                                   *)
(***************************************************************************)
Coord(x, y, z) == [x |-> x, y |-> y, z |-> z]

ORIGO == Coord(0, 0, 0)

Abs(v) == IF v < 0 THEN -v ELSE v

Max(S) == CHOOSE m \in S : \A e \in S : e <= m

Min(S) == CHOOSE m \in S : \A e \in S : m <= e

\* the spacing of the floats around a: the power of two q with a/q below
\* 2^SignificandBits
RECURSIVE Ulp(_, _)
Ulp(a, q) == IF a \div q < 2 ^ SignificandBits THEN q ELSE Ulp(a, 2 * q)

\* An exact result as the float that holds it: values below 2^SignificandBits
\* units are exact, larger ones are rounded to the nearest multiple of their
\* ulp, halves to the even significand.  The unit is a thousandth, the
\* significand is scaled down from the 53 bits of f64.
F64Round(v) ==
    LET a == Abs(v)
        q == Ulp(a, 1)
        lo == (a \div q) * q
        rem == a - lo
        up == \/ 2 * rem > q
              \/ 2 * rem = q /\ (a \div q) % 2 = 1
        r == IF up THEN lo + q ELSE lo
    IN  IF v < 0 THEN -r ELSE r

\* f64 + f64
F64Add(a, b) == F64Round(a + b)

CoordAdd(c, other) ==
    Coord(F64Add(c.x, other.x), F64Add(c.y, other.y), F64Add(c.z, other.z))

(***************************************************************************)
(* Crystal                                                                 *)
(***************************************************************************)
Angles == {60, 90, 120}

\* f64::sin and f64::cos in thousandths, for the angles of Angles (degrees)
SinMilli(gamma) == CASE gamma = 60 -> 866 [] gamma = 90 -> 1000 [] gamma = 120 -> 866

CosMilli(gamma) == CASE gamma = 60 -> 500 [] gamma = 90 -> 0 [] gamma = 120 -> -500

CrystalHexagonal(a) == [a |-> a, b |-> a, gamma |-> 120, lattice_type |-> "Hexagonal"]

CrystalTriclinic(a, b, gamma) ==
    [a |-> a, b |-> b, gamma |-> gamma, lattice_type |-> "Triclinic"]

\* Spacing(dx, dy, dx_per_row), in thousandths
CrystalSpacing(c) ==
    [dx |-> c.a * 1000, dy |-> c.b * SinMilli(c.gamma), dx_per_row |-> c.b * CosMilli(c.gamma)]

Crystals ==
    {CrystalHexagonal(a) : a \in 1..MaxLen}
        \cup {CrystalTriclinic(a, b, g) : a \in 1..MaxLen, b \in 1..MaxLen, g \in Angles}

(***************************************************************************)
(* Lattice::from_size                                                      *)
(***************************************************************************)
\* f64::round of num/den for den > 0: to the nearest integer, halves away from zero
RoundDiv(num, den) ==
    IF num >= 0 THEN (2 * num + den) \div (2 * den)
    ELSE -((2 * (-num) + den) \div (2 * den))

\* `as u64` of a float with an integer value: negative values saturate at 0
AsU64(v) == IF v < 0 THEN 0 ELSE v

\* num/den cut off towards zero, for den > 0
TruncDiv(num, den) == IF num >= 0 THEN num \div den ELSE -((-num) \div den)

FromSizeCountsTruncating(c, size_x, size_y) ==
    LET sp == CrystalSpacing(c)
    IN  <<AsU64(TruncDiv(size_x, sp.dx)), AsU64(TruncDiv(size_y, sp.dy))>>

\* (nx, ny) of Lattice::from_size
FromSizeCounts(c, size_x, size_y) ==
    LET sp == CrystalSpacing(c)
    IN  <<AsU64(RoundDiv(size_x, sp.dx)), AsU64(RoundDiv(size_y, sp.dy))>>

(***************************************************************************)
(* LatticeBuilder                                                          *)
(***************************************************************************)
NewBuilder(c, nx, ny) == [spacing |-> CrystalSpacing(c), nx |-> nx, ny |-> ny, coords |-> <<>>]

\* the closure of the map calls: the grid point of (row, col)
GridPoint(sp, row, col) ==
    Coord(col * sp.dx + row * sp.dx_per_row, row * sp.dy, 0)

\* (0..nx).map(..) of one row
GenericRow(sp, nx, row) == [i \in 1..nx |-> GridPoint(sp, row, i - 1)]

HexagonalRowUnshifted(sp, nx, row) ==
    LET cols == SelectSeq([i \in 1..nx |-> i - 1], LAMBDA col : (col + row) % 3 > 0)
    IN  [i \in 1..Len(cols) |-> GridPoint(sp, row, cols[i])]

\* (0..nx).filter(..).map(..) of one row
HexagonalRow(sp, nx, row) ==
    LET cols == SelectSeq([i \in 1..nx |-> i - 1], LAMBDA col : (col + row + 1) % 3 > 0)
    IN  [i \in 1..Len(cols) |-> GridPoint(sp, row, cols[i])]

\* flat_map(..).collect() over the rows: the rows, concatenated in order
RECURSIVE FlatMap(_)
FlatMap(rows) ==
    IF rows = <<>> THEN <<>> ELSE Head(rows) \o FlatMap(Tail(rows))

GenericColumnMajor(b) ==
    LET Column(col) == [i \in 1..b.ny |-> GridPoint(b.spacing, i - 1, col)]
    IN  [b EXCEPT !.coords = FlatMap([i \in 1..b.nx |-> Column(i - 1)])]

Generic(b) ==
    LET Row(row) == GenericRow(b.spacing, b.nx, row)
    IN  [b EXCEPT !.coords = FlatMap([i \in 1..b.ny |-> Row(i - 1)])]

RoundUpToMultipleNearest(n, m) == RoundDiv(n, m) * m

\* ((n as f64 / m).ceil() * m) as u64
RoundUpToMultiple(n, m) == ((n + m - 1) \div m) * m

HexagonalLocalCounts(b) ==
    LET nx == RoundUpToMultiple(b.nx, 3)
        ny == RoundUpToMultiple(b.ny, 2)
        Row(row) == HexagonalRow(b.spacing, nx, row)
    IN  [b EXCEPT !.coords = FlatMap([i \in 1..ny |-> Row(i - 1)])]

Hexagonal(b) ==
    LET nx == RoundUpToMultiple(b.nx, 3)
        ny == RoundUpToMultiple(b.ny, 2)
        Row(row) == HexagonalRow(b.spacing, nx, row)
    IN  [b EXCEPT !.nx = nx, !.ny = ny, !.coords = FlatMap([i \in 1..ny |-> Row(i - 1)])]

Finalize(b) ==
    [box_size |-> Coord(b.nx * b.spacing.dx, b.ny * b.spacing.dy, 0), coords |-> b.coords]

\* LatticeBuilder::new, as one function
LatticeBuilderNew(c, nx, ny) ==
    LET b == NewBuilder(c, nx, ny)
    IN  Finalize(IF c.lattice_type = "Hexagonal" THEN Hexagonal(b) ELSE Generic(b))

(***************************************************************************)
(* The lattice generator as a state machine                                *)
(***************************************************************************)
Counts == 0..MaxN

\* sizes in thousandths: -0.5, -0.25, 0, 0.25, ..., and 0.9 and 2.1 of the tests
Sizes == {250 * s : s \in -2..MaxSizeSteps} \cup {900, 2100}

NoBuilder == [spacing |-> [dx |-> 0, dy |-> 0, dx_per_row |-> 0], nx |-> 0, ny |-> 0, coords |-> <<>>]
NoLattice == [box_size |-> ORIGO, coords |-> <<>>]
NotCalled == [called |-> FALSE, item |-> None]
IdleIter == [atom_index |-> 0, coord_index |-> 0, atom_count |-> 0,
             residue |-> None, origin |-> ORIGO, coords |-> <<>>]
NoCylinder == [alignment |-> "Z", origin |-> ORIGO, radius |-> 0, height |-> 0,
               coords |-> <<>>]
NoDisc == [density |-> 0, points |-> {}, grid |-> <<>>, active |-> {}, current |-> None,
           attempts |-> 0]
NoNoise == [lattice_type |-> None, area |-> <<0, 0>>, round |-> 0, points |-> <<>>,
            candidates |-> <<>>, drawn |-> 0]
NoOut == [system |-> [residues |-> <<>>, dimensions |-> ORIGO], title |-> "", lines |-> <<>>,
          i |-> 0]
NoMenu == [kind |-> "none", list |-> <<>>, backup |-> <<>>, entered |-> <<>>, before |-> <<>>,
           last |-> "none"]
NoComponentBuilder == [component |-> "None", name |-> "", type |-> "None", lattice |-> <<>>,
                       density |-> <<>>, last |-> "none", result |-> <<>>]
NoSubstrate == [conf |-> "None", size_x |-> 0, size_y |-> 0]
NoComponent == [origin |-> ORIGO, box_size |-> ORIGO,
                residue_base |-> [code |-> "", atoms |-> <<>>], residue_coords |-> <<>>]

\* the parts a specification does not run stay as they are here
IdleLattice ==
    /\ entry = "none"
    /\ crystal = CrystalHexagonal(1)
    /\ size = <<0, 0>>
    /\ req = <<0, 0>>
    /\ builder = NoBuilder
    /\ lattice = NoLattice

IdleIterator ==
    /\ iter = IdleIter
    /\ ret = NotCalled
    /\ yielded = <<>>

IdleComponent ==
    /\ component = NoComponent
    /\ source = NoComponent
    /\ shifts = <<>>
    /\ count = -1

IdleCylinder ==
    /\ cylinder = NoCylinder
    /\ probe = None
    /\ inside = FALSE
    /\ cbox = None
    /\ fill_type = None
    /\ filling = <<>>
    /\ draws = <<>>

IdleSubstrate ==
    /\ substrate = NoSubstrate
    /\ grid = None
    /\ atom_list = <<>>
    /\ result = None

IdleCoordEq ==
    /\ lhs = ORIGO
    /\ rhs = ORIGO
    /\ equal = FALSE

IdleDisc == disc = NoDisc

IdleNoise == noise = NoNoise

IdleOut == out = NoOut

IdleFirst == first = None

IdleMenu == menu = NoMenu

IdleNewComponent == component_builder = NoComponentBuilder

IdleMore == IdleCoordEq /\ IdleDisc /\ IdleNoise /\ IdleOut /\ IdleFirst /\ IdleMenu /\ IdleNewComponent

IdleRest == IdleCylinder /\ IdleSubstrate /\ IdleMore

IdleOld == IdleLattice /\ IdleIterator /\ IdleComponent /\ IdleCylinder /\ IdleSubstrate

IdleExceptEq == IdleOld /\ IdleDisc /\ IdleNoise /\ IdleOut /\ IdleFirst /\ IdleMenu /\ IdleNewComponent

IdleExceptDisc == IdleOld /\ IdleCoordEq /\ IdleNoise /\ IdleOut /\ IdleFirst /\ IdleMenu /\ IdleNewComponent

IdleExceptNoise == IdleOld /\ IdleCoordEq /\ IdleDisc /\ IdleOut /\ IdleFirst /\ IdleMenu /\ IdleNewComponent

IdleExceptOut == IdleOld /\ IdleCoordEq /\ IdleDisc /\ IdleNoise /\ IdleFirst /\ IdleMenu /\ IdleNewComponent

IdleExceptMenu == IdleOld /\ IdleCoordEq /\ IdleDisc /\ IdleNoise /\ IdleOut /\ IdleFirst /\ IdleNewComponent

IdleExceptNewComponent == IdleOld /\ IdleCoordEq /\ IdleDisc /\ IdleNoise /\ IdleOut /\ IdleFirst /\ IdleMenu

InitLattice ==
    /\ crystal \in Crystals
    /\ entry \in {"new", "from_size"}
    /\ lpc = entry
    /\ \/ /\ entry = "new"
          /\ req \in Counts \X Counts
          /\ size = <<0, 0>>
       \/ /\ entry = "from_size"
          /\ size \in Sizes \X Sizes
          /\ req = <<0, 0>>
    /\ builder = NoBuilder
    /\ lattice = NoLattice
    /\ IdleIterator
    /\ IdleComponent
    /\ IdleRest

\* Lattice::from_size up to its call of Lattice::new
FromSize ==
    /\ lpc = "from_size"
    /\ req' = FromSizeCounts(crystal, size[1], size[2])
    /\ lpc' = "new"
    /\ UNCHANGED <<entry, crystal, size, builder, lattice, iterVars, extVars>>

\* LatticeBuilder::new: the builder is set up
BuilderNew ==
    /\ lpc = "new"
    /\ builder' = NewBuilder(crystal, req[1], req[2])
    /\ lpc' = "dispatch"
    /\ UNCHANGED <<entry, crystal, size, req, lattice, iterVars, extVars>>

BuildHexagonal ==
    /\ lpc = "dispatch"
    /\ crystal.lattice_type = "Hexagonal"
    /\ builder' = Hexagonal(builder)
    /\ lpc' = "finalize"
    /\ UNCHANGED <<entry, crystal, size, req, lattice, iterVars, extVars>>

BuildGeneric ==
    /\ lpc = "dispatch"
    /\ crystal.lattice_type # "Hexagonal"
    /\ builder' = Generic(builder)
    /\ lpc' = "finalize"
    /\ UNCHANGED <<entry, crystal, size, req, lattice, iterVars, extVars>>

BuildFinalize ==
    /\ lpc = "finalize"
    /\ lattice' = Finalize(builder)
    /\ lpc' = "done"
    /\ UNCHANGED <<entry, crystal, size, req, builder, iterVars, extVars>>

NextLattice == FromSize \/ BuilderNew \/ BuildHexagonal \/ BuildGeneric \/ BuildFinalize

SpecLattice == InitLattice /\ [][NextLattice]_vars

(***************************************************************************)
(* AtomIterator                                                            *)
(***************************************************************************)
Atom(code, position) == [code |-> code, position |-> position]

Residue(code, atoms) == [code |-> code, atoms |-> atoms]

\* AtomIterator::new
AtomIteratorNew(residue, coords, origin) ==
    [atom_index |-> 0, coord_index |-> 0, atom_count |-> 0,
     residue |-> residue, origin |-> origin, coords |-> coords]

\* slice::get(i), i counted from 0
SliceGet(s, i) == IF i < Len(s) THEN Some(s[i + 1]) ELSE None

CoordsGetOrOrigo(it) ==
    IF it.coords = <<>> /\ it.coord_index = 0 THEN Some(ORIGO)
    ELSE SliceGet(it.coords, it.coord_index)

\* self.coords.get(self.coord_index)
CoordsGet(it) == SliceGet(it.coords, it.coord_index)

CurrentAtomRelativeIndex(it, residue, atom, coord) ==
    [atom_index |-> it.atom_index,
     residue_index |-> it.coord_index,
     atom |-> atom,
     residue |-> residue,
     position |-> CoordAdd(CoordAdd(atom.position, coord), it.origin)]

CurrentAtomWithoutOrigin(it, residue, atom, coord) ==
    [atom_index |-> it.atom_count,
     residue_index |-> it.coord_index,
     atom |-> atom,
     residue |-> residue,
     position |-> CoordAdd(atom.position, coord)]

\* the CurrentAtom that next() yields for `atom` of `residue` at `coord`
CurrentAtom(it, residue, atom, coord) ==
    [atom_index |-> it.atom_count,
     residue_index |-> it.coord_index,
     atom |-> atom,
     residue |-> residue,
     position |-> CoordAdd(CoordAdd(atom.position, coord), it.origin)]

\* after a yield: self.atom_index += 1; self.atom_count += 1
Advance(it) == [it EXCEPT !.atom_index = @ + 1, !.atom_count = @ + 1]

RolloverKeepsAtomIndex(it) == [it EXCEPT !.coord_index = @ + 1]

\* the atoms of the residue are used up: self.atom_index = 0; self.coord_index += 1
Rollover(it) == [it EXCEPT !.atom_index = 0, !.coord_index = @ + 1]

\* next() of an iterator that rewinds to the first point when it runs out
RECURSIVE AtomIteratorNextRewinds(_)
AtomIteratorNextRewinds(it) ==
    LET coord == CoordsGet(it)
    IN  IF ~IsSome(coord)
        THEN [iter |-> [it EXCEPT !.atom_index = 0, !.coord_index = 0], item |-> None]
        ELSE IF ~IsSome(it.residue) THEN [iter |-> it, item |-> None]
        ELSE LET residue == Unwrap(it.residue)
                 atom == SliceGet(residue.atoms, it.atom_index)
             IN  IF IsSome(atom)
                 THEN [iter |-> Advance(it),
                       item |-> Some(CurrentAtom(it, residue, Unwrap(atom), Unwrap(coord)))]
                 ELSE AtomIteratorNextRewinds(Rollover(it))

\* AtomIterator::next: the iterator after the call and the item returned
RECURSIVE AtomIteratorNext(_)
AtomIteratorNext(it) ==
    LET coord == CoordsGet(it)
    IN  IF ~IsSome(coord) THEN [iter |-> it, item |-> None]
        ELSE IF ~IsSome(it.residue) THEN [iter |-> it, item |-> None]
        ELSE LET residue == Unwrap(it.residue)
                 atom == SliceGet(residue.atoms, it.atom_index)
             IN  IF IsSome(atom)
                 THEN [iter |-> Advance(it),
                       item |-> Some(CurrentAtom(it, residue, Unwrap(atom), Unwrap(coord)))]
                 ELSE AtomIteratorNext(Rollover(it))

(***************************************************************************)
(* The atom iterator as a state machine                                    *)
(***************************************************************************)
SeqsUpTo(S, n) == UNION {[1..k -> S] : k \in 0..n}

\* the atoms and points of the test atom_iterator_yields_correct_values, in
\* hundredths, and one more atom
AtomPool == {Atom("A", Coord(0, 10, 20)), Atom("B", Coord(50, 60, 70)), Atom("C", Coord(3, 4, 5))}
PointPool == {Coord(1000, 1100, 1200), Coord(2000, 2100, 2200)}
OriginPool == {ORIGO, Coord(500, 600, 700)}

Residues == {Residue("RES", atoms) : atoms \in SeqsUpTo(AtomPool, MaxAtoms)}

InitIter ==
    /\ \E residue \in {None} \cup {Some(r) : r \in Residues},
          coords \in SeqsUpTo(PointPool, MaxPoints),
          origin \in OriginPool :
              iter = AtomIteratorNew(residue, coords, origin)
    /\ ret = NotCalled
    /\ yielded = <<>>
    /\ IdleLattice
    /\ lpc = "idle"
    /\ IdleComponent
    /\ IdleRest

\* one call of next()
IterNext ==
    LET r == AtomIteratorNext(iter)
    IN  /\ iter' = r.iter
        /\ ret' = [called |-> TRUE, item |-> r.item]
        /\ yielded' = IF IsSome(r.item) THEN Append(yielded, Unwrap(r.item)) ELSE yielded
        /\ UNCHANGED <<latticeVars, extVars>>

NextIter == IterNext

SpecIter == InitIter /\ [][NextIter]_vars

(***************************************************************************)
(* Component and Lattice::translate                                        *)
(***************************************************************************)
Component(origin, box_size, residue_base, residue_coords) ==
    [origin |-> origin, box_size |-> box_size,
     residue_base |-> residue_base, residue_coords |-> residue_coords]

ComponentNumAtomsSum(c) == Len(c.residue_base.atoms) + Len(c.residue_coords)

\* Component::num_atoms
ComponentNumAtoms(c) == Len(c.residue_base.atoms) * Len(c.residue_coords)

ComponentTranslateSetsOrigin(c, add) == [c EXCEPT !.origin = add]

ComponentTranslateMovesCoords(c, add) ==
    [c EXCEPT !.origin = CoordAdd(c.origin, add),
              !.residue_coords = [i \in DOMAIN c.residue_coords |->
                                      CoordAdd(c.residue_coords[i], add)]]

\* Component::translate
ComponentTranslate(c, add) == [c EXCEPT !.origin = CoordAdd(c.origin, add)]

LatticeTranslateMovesBox(l, translate) ==
    [l EXCEPT !.coords = [i \in DOMAIN l.coords |-> CoordAdd(l.coords[i], translate)],
              !.box_size = CoordAdd(l.box_size, translate)]

\* Lattice::translate
LatticeTranslate(l, translate) ==
    [l EXCEPT !.coords = [i \in DOMAIN l.coords |-> CoordAdd(l.coords[i], translate)]]

(***************************************************************************)
(* Counting and stamping the atoms of a component, as a state machine      *)
(***************************************************************************)
\* the residue of the tests of system.rs with 0..MaxAtoms atoms
TestAtoms == <<Atom("A", Coord(0, 10, 20)), Atom("B", Coord(50, 60, 70)), Atom("C", Coord(3, 4, 5))>>
ComponentResidues ==
    {Residue("R1", [i \in 1..k |-> TestAtoms[((i - 1) % 3) + 1]]) : k \in 0..MaxAtoms}
BoxPool == {ORIGO, Coord(3000, 2000, 1000)}

Components ==
    {Component(o, b, r, cs) : o \in OriginPool, b \in BoxPool, r \in ComponentResidues,
                              cs \in SeqsUpTo(PointPool, MaxPoints)}

InitComponent ==
    /\ component \in Components
    /\ source = component
    /\ shifts = <<>>
    /\ count = -1
    /\ lpc = "component"
    /\ IdleLattice
    /\ IdleIterator
    /\ IdleRest

\* a call of num_atoms()
ComponentCountAtoms ==
    /\ lpc = "component"
    /\ count' = ComponentNumAtoms(component)
    /\ lpc' = "counted"
    /\ UNCHANGED <<entry, crystal, size, req, builder, lattice, iterVars,
                   component, source, shifts, restVars>>

\* an AtomIterator is made of the component's residue, coordinates and origin
ComponentIterAtoms ==
    /\ lpc = "counted"
    /\ iter' = AtomIteratorNew(Some(component.residue_base), component.residue_coords,
                               component.origin)
    /\ lpc' = "iterating"
    /\ UNCHANGED <<entry, crystal, size, req, builder, lattice, ret, yielded, extVars>>

ComponentIterNext ==
    /\ lpc = "iterating"
    /\ IterNext

NextComponent == ComponentCountAtoms \/ ComponentIterAtoms \/ ComponentIterNext

SpecComponent == InitComponent /\ [][NextComponent]_vars

(***************************************************************************)
(* Translating a lattice or a component, as a state machine                *)
(***************************************************************************)
CoordNeg(v) == Coord(-v.x, -v.y, -v.z)

\* the vector of the test translate_lattice and one far beyond the exact range
\* of the floats, each with its negative
Shifts ==
    LET near == Coord(-500, 500, 1000)
        far == Coord(2 ^ (SignificandBits + 3), 0, 0)
    IN  {near, CoordNeg(near), far, CoordNeg(far)}

InitTranslate ==
    /\ shifts = <<>>
    /\ count = -1
    /\ IdleIterator
    /\ IdleRest
    /\ size = <<0, 0>>
    /\ builder = NoBuilder
    /\ \/ /\ lpc = "lattice"
          /\ entry = "new"
          /\ crystal \in Crystals
          /\ req \in (0..MaxPoints) \X (0..MaxPoints)
          /\ lattice = LatticeBuilderNew(crystal, req[1], req[2])
          /\ source = lattice
          /\ component = NoComponent
       \/ /\ lpc = "component"
          /\ entry = "none"
          /\ crystal = CrystalHexagonal(1)
          /\ req = <<0, 0>>
          /\ lattice = NoLattice
          /\ component \in Components
          /\ source = component

\* lattice.translate(&v)
TranslateLattice ==
    /\ lpc = "lattice"
    /\ Len(shifts) < MaxTranslates
    /\ \E v \in Shifts :
           /\ lattice' = LatticeTranslate(lattice, v)
           /\ shifts' = Append(shifts, v)
    /\ UNCHANGED <<entry, crystal, size, req, builder, lpc, iterVars, component, source, count,
                   restVars>>

\* component.translate(&v)
TranslateComponent ==
    /\ lpc = "component"
    /\ Len(shifts) < MaxTranslates
    /\ \E v \in Shifts :
           /\ component' = ComponentTranslate(component, v)
           /\ shifts' = Append(shifts, v)
    /\ UNCHANGED <<latticeVars, iterVars, source, count, restVars>>

NextTranslate == TranslateLattice \/ TranslateComponent

SpecTranslate == InitTranslate /\ [][NextTranslate]_vars

(***************************************************************************)
(* Cylinder                                                                *)
(***************************************************************************)
Directions == {"X", "Y", "Z"}

Cylinder(alignment, origin, radius, height) ==
    [alignment |-> alignment, origin |-> origin, radius |-> radius, height |-> height,
     coords |-> <<>>]

CalcBoxSizeHeightFirst(c) == Coord(c.height, 2 * c.radius, 2 * c.radius)

\* Cylinder::calc_box_size
CalcBoxSize(c) ==
    LET diameter == 2 * c.radius
    IN  CASE c.alignment = "X" -> Coord(c.height, diameter, diameter)
          [] c.alignment = "Y" -> Coord(diameter, c.height, diameter)
          [] c.alignment = "Z" -> Coord(diameter, diameter, c.height)

\* f64 - f64 per axis
CoordSub(c, other) ==
    Coord(F64Round(c.x - other.x), F64Round(c.y - other.y), F64Round(c.z - other.z))

RECURSIVE PowerAbove(_, _)
PowerAbove(n, s) == IF s * s >= n THEN s ELSE PowerAbove(n, 2 * s)

RECURSIVE SqrtSearch(_, _, _)
SqrtSearch(n, lo, hi) ==
    IF lo = hi THEN lo
    ELSE LET mid == (lo + hi) \div 2
         IN  IF mid * mid >= n THEN SqrtSearch(n, lo, mid) ELSE SqrtSearch(n, mid + 1, hi)

\* f64::sqrt on the grid of thousandths: exact for a square, and otherwise the
\* next grid value above the root, which compares with every grid value as the
\* root itself does
Sqrt(n) == SqrtSearch(n, 0, PowerAbove(n, 1))

\* Coord::distance_cylindrical: the radial distance of coord from the axis
\* through origin along dir, and its signed height along that axis
DistanceCylindrical(origin, coord, dir) ==
    LET d == CoordSub(coord, origin)
    IN  CASE dir = "X" -> <<Sqrt(d.y * d.y + d.z * d.z), d.x>>
          [] dir = "Y" -> <<Sqrt(d.x * d.x + d.z * d.z), d.y>>
          [] dir = "Z" -> <<Sqrt(d.x * d.x + d.y * d.y), d.z>>

ContainsOpenTop(c, coord) ==
    LET d == DistanceCylindrical(c.origin, coord, c.alignment)
    IN  d[1] <= c.radius /\ d[2] >= 0 /\ d[2] < c.height

\* Cylinder::contains
Contains(c, coord) ==
    LET d == DistanceCylindrical(c.origin, coord, c.alignment)
        dr == d[1]
        dh == d[2]
    IN  dr <= c.radius /\ dh >= 0 /\ dh <= c.height

\* Range::new(low, high) of rand panics unless low < high
RangeNew(low, high) == IF low < high THEN Some([low |-> low, high |-> high]) ELSE None

\* range.ind_sample(&mut rng): the generator hands out u = k / DrawSteps with
\* k in 0..DrawSteps-1, and the sample is low + (high - low) * u
IndSample(range, k) == range.low + RoundDiv((range.high - range.low) * k, DrawSteps)

\* the samples of range_angle the generator hands out, as (cos, sin) in
\* thousandths: 0, atan(4/3), pi - atan(3/4) and 3*pi/2
FillAngles == <<[cos |-> 1000, sin |-> 0], [cos |-> 600, sin |-> 800],
                [cos |-> -800, sin |-> 600], [cos |-> 0, sin |-> -1000]>>

\* what the generator hands to one call of gen_coord
Samples == [radius : 0..(DrawSteps - 1), angle : DOMAIN FillAngles,
            height : 0..(DrawSteps - 1)]

GenCoordAlongZ(c, s) ==
    LET radius == IndSample(RangeNew(0, c.radius)[1], s.radius)
        h == IndSample(RangeNew(0, c.height)[1], s.height)
    IN  Coord(RoundDiv(radius * FillAngles[s.angle].cos, 1000),
              RoundDiv(radius * FillAngles[s.angle].sin, 1000), h)

\* the closure gen_coord of Cylinder::fill
GenCoord(c, s) ==
    LET range_radius == RangeNew(0, c.radius)[1]
        range_height == RangeNew(0, c.height)[1]
        radius == IndSample(range_radius, s.radius)
        r0 == RoundDiv(radius * FillAngles[s.angle].cos, 1000)
        r1 == RoundDiv(radius * FillAngles[s.angle].sin, 1000)
        h == IndSample(range_height, s.height)
    IN  CASE c.alignment = "X" -> Coord(h, r0, r1)
          [] c.alignment = "Y" -> Coord(r0, h, r1)
          [] c.alignment = "Z" -> Coord(r0, r1, h)

\* FillType::NumCoords(n).to_num_coords(&self)
ToNumCoords(n, c) == n

(***************************************************************************)
(* The cylinder as a state machine: one of contains, calc_box_size and     *)
(* fill is called on a cylinder                                            *)
(***************************************************************************)
\* the cylinders of the tests (radius and height positive, origin at zero or
\* at (1, 1, 1)), and cylinders with a zero or negative radius or a zero height
Cylinders ==
    {Cylinder(a, o, rh[1], rh[2]) :
        a \in Directions, o \in {ORIGO, Coord(1000, 1000, 1000)},
        rh \in {<<3000, 2000>>, <<0, 2000>>, <<3000, 0>>, <<-1000, 2000>>}}

\* offsets per axis around the axis, the wall and the two caps of c
Offsets(c) ==
    LET R == c.radius
        H == c.height
    IN  {-1, 0, 1, (3 * R) \div 5, (4 * R) \div 5, ((3 * R) \div 5) + 1,
         R, R + 1, -R, -R - 1, H - 1, H, H + 1}

Probes(c) ==
    {CoordAdd(c.origin, Coord(p, q, s)) : p \in Offsets(c), q \in Offsets(c), s \in Offsets(c)}

InitCylinder ==
    /\ cylinder \in Cylinders
    /\ probe = None
    /\ inside = FALSE
    /\ cbox = None
    /\ fill_type = None
    /\ filling = <<>>
    /\ draws = <<>>
    /\ lpc = "cylinder"
    /\ IdleLattice
    /\ IdleIterator
    /\ IdleComponent
    /\ IdleSubstrate
    /\ IdleMore

\* cylinder.contains(coord)
CylinderContains ==
    /\ lpc = "cylinder"
    /\ \E coord \in Probes(cylinder) :
           /\ probe' = Some(coord)
           /\ inside' = Contains(cylinder, coord)
    /\ lpc' = "contains"
    /\ UNCHANGED <<entry, crystal, size, req, builder, lattice, iterVars, compVars, moreVars,
                   cylinder, cbox, fill_type, filling, draws, subVars>>

\* cylinder.calc_box_size()
CylinderCalcBoxSize ==
    /\ lpc = "cylinder"
    /\ cbox' = Some(CalcBoxSize(cylinder))
    /\ lpc' = "box"
    /\ UNCHANGED <<entry, crystal, size, req, builder, lattice, iterVars, compVars, moreVars,
                   cylinder, probe, inside, fill_type, filling, draws, subVars>>

\* cylinder.fill(FillType::NumCoords(n)): the three ranges are made
FillRanges ==
    /\ lpc = "cylinder"
    /\ \E n \in 0..MaxFill : fill_type' = Some(n)
    /\ lpc' = IF RangeNew(0, cylinder.radius) = None \/ RangeNew(0, cylinder.height) = None
              THEN "panicked" ELSE "fill"
    /\ UNCHANGED <<entry, crystal, size, req, builder, lattice, iterVars, compVars, moreVars,
                   cylinder, probe, inside, cbox, filling, draws, subVars>>

\* one call of gen_coord of (0..num_coords).map(|_| gen_coord())
FillGenCoord ==
    /\ lpc = "fill"
    /\ Len(filling) < ToNumCoords(fill_type[1], cylinder)
    /\ \E s \in Samples :
           /\ filling' = Append(filling, GenCoord(cylinder, s))
           /\ draws' = Append(draws, s)
    /\ UNCHANGED <<latticeVars, iterVars, compVars, moreVars,
                   cylinder, probe, inside, cbox, fill_type, subVars>>

\* Cylinder { coords, .. self.clone() }
FillCollect ==
    /\ lpc = "fill"
    /\ Len(filling) = ToNumCoords(fill_type[1], cylinder)
    /\ cylinder' = [cylinder EXCEPT !.coords = filling]
    /\ lpc' = "filled"
    /\ UNCHANGED <<entry, crystal, size, req, builder, lattice, iterVars, compVars, moreVars,
                   probe, inside, cbox, fill_type, filling, draws, subVars>>

NextCylinder ==
    CylinderContains \/ CylinderCalcBoxSize \/ FillRanges \/ FillGenCoord \/ FillCollect

SpecCylinder == InitCylinder /\ [][NextCylinder]_vars

(***************************************************************************)
(* create_substrate                                                        *)
(***************************************************************************)
InvalidSizesBoth(size_x, size_y) == size_x <= 0 /\ size_y <= 0

\* the check of create_substrate on its sizes
InvalidSizes(size_x, size_y) == size_x <= 0 \/ size_y <= 0

Err(message) == [ok |-> FALSE, message |-> message]

Ok(dimensions, coords) == [ok |-> TRUE, dimensions |-> dimensions, coords |-> coords]

\* bond_length of create_graphene, 0.142, in thousandths
BondLength == 142

\* get_graphene_base: one carbon atom at half a bond length along each axis
GetGrapheneBase(bond_length) ==
    Residue("GRPH", <<Atom("C", Coord(bond_length \div 2, bond_length \div 2,
                                      bond_length \div 2))>>)

\* grids::hexagonal_grid: a honeycomb of rectangular cells of
\* (sqrt(3) * bond_length, 3 * bond_length) with four points each, the first
\* one at the origin; the numbers of cells are the sizes over the cell,
\* rounded, and the dimensions are the cells times their numbers
HexagonalGrid(size_x, size_y, bond_length, z0) ==
    LET cx == RoundDiv(1732 * bond_length, 1000)
        cy == 3 * bond_length
        nx == AsU64(RoundDiv(size_x, cx))
        ny == AsU64(RoundDiv(size_y, cy))
        cell == <<Coord(0, 0, 0), Coord(cx \div 2, bond_length \div 2, 0),
                  Coord(cx \div 2, (3 * bond_length) \div 2, 0),
                  Coord(0, 2 * bond_length, 0)>>
        point(k) == LET c == (k - 1) \div 4
                    IN  CoordAdd(Coord((c % nx) * cx, (c \div nx) * cy, 0),
                                 cell[((k - 1) % 4) + 1])
    IN  [dimensions |-> Coord(nx * cx, ny * cy, 0),
         coords |-> [k \in 1..(4 * nx * ny) |-> point(k)]]

\* get_atom
GetAtom(residue_number, atom_number, grid_point, atom, residue) ==
    [residue_name |-> residue.code,
     residue_number |-> residue_number,
     atom_name |-> atom.code,
     atom_number |-> Len(residue.atoms) * residue_number + atom_number,
     position |-> CoordAdd(grid_point, atom.position)]

\* the inner loop of gen_atom_list for the grid point of index i (from 0)
GenAtomsOfPoint(i, point, residue) ==
    [j \in 1..Len(residue.atoms) |-> GetAtom(i, j - 1, point, residue.atoms[j], residue)]

(***************************************************************************)
(* create_substrate as a state machine                                     *)
(***************************************************************************)
\* sizes in thousandths: negative, zero, and positive up to the 1.0 of the test
SubstrateSizes == {-500, 0, 250, 500, 1000}

Substrates == {"Graphene", "Silica"}

InitSubstrate ==
    /\ substrate \in [conf : Substrates, size_x : SubstrateSizes, size_y : SubstrateSizes]
    /\ grid = None
    /\ atom_list = <<>>
    /\ result = None
    /\ lpc = "create_substrate"
    /\ IdleLattice
    /\ IdleIterator
    /\ IdleComponent
    /\ IdleCylinder
    /\ IdleMore

\* create_substrate: the check of the sizes and the match on the substrate
CreateSubstrate ==
    /\ lpc = "create_substrate"
    /\ IF InvalidSizes(substrate.size_x, substrate.size_y)
       THEN /\ result' = Some(Err("input sizes of the system have to be positive"))
            /\ lpc' = "returned"
       ELSE IF substrate.conf = "Graphene"
       THEN /\ lpc' = "create_graphene"
            /\ UNCHANGED result
       ELSE /\ result' = Some(Err("Substrate not yet implemented"))
            /\ lpc' = "returned"
    /\ UNCHANGED <<entry, crystal, size, req, builder, lattice, iterVars, compVars, moreVars,
                   cylVars, substrate, grid, atom_list>>

\* create_graphene: grids::hexagonal_grid(size_x, size_y, bond_length, z0)
CreateGrapheneGrid ==
    /\ lpc = "create_graphene"
    /\ grid' = Some(HexagonalGrid(substrate.size_x, substrate.size_y, BondLength, BondLength))
    /\ lpc' = "gen_atom_list"
    /\ UNCHANGED <<entry, crystal, size, req, builder, lattice, iterVars, compVars, moreVars,
                   cylVars, substrate, atom_list, result>>

\* gen_atom_list: one turn of the loop over the grid points
GenAtomListPoint ==
    /\ lpc = "gen_atom_list"
    /\ LET residue == GetGrapheneBase(BondLength)
           i == Len(atom_list) \div Len(residue.atoms)
       IN  /\ i < Len(grid[1].coords)
           /\ atom_list' = atom_list \o GenAtomsOfPoint(i, grid[1].coords[i + 1], residue)
    /\ UNCHANGED <<latticeVars, iterVars, compVars, moreVars, cylVars, substrate, grid, result>>

\* gen_atom_list returns, and create_graphene with it
CreateGrapheneReturn ==
    /\ lpc = "gen_atom_list"
    /\ Len(atom_list) = Len(grid[1].coords) * Len(GetGrapheneBase(BondLength).atoms)
    /\ result' = Some(Ok(grid[1].dimensions, atom_list))
    /\ lpc' = "returned"
    /\ UNCHANGED <<entry, crystal, size, req, builder, lattice, iterVars, compVars, moreVars,
                   cylVars, substrate, grid, atom_list>>

NextSubstrate ==
    CreateSubstrate \/ CreateGrapheneGrid \/ GenAtomListPoint \/ CreateGrapheneReturn

SpecSubstrate == InitSubstrate /\ [][NextSubstrate]_vars

(***************************************************************************)
(* Coord equality (system.rs).  In this part the unit of a coordinate is   *)
(* 1e-10, so that the tolerance 1e-9 of eq is Atol units.                  *)
(***************************************************************************)
\* atol of eq, 1e-9, in units of 1e-10
Atol == 10

\* f64 - f64
F64Sub(a, b) == F64Round(a - b)

CoordPartialEqClosed(self, other) ==
    /\ Abs(F64Sub(self.x, other.x)) <= Atol
    /\ Abs(F64Sub(self.y, other.y)) <= Atol
    /\ Abs(F64Sub(self.z, other.z)) <= Atol

\* impl PartialEq for Coord: eq
CoordPartialEq(self, other) ==
    LET atol == Atol
    IN  /\ Abs(F64Sub(self.x, other.x)) < atol
        /\ Abs(F64Sub(self.y, other.y)) < atol
        /\ Abs(F64Sub(self.z, other.z)) < atol

\* deviations per axis in units of 1e-10: the 1e-10, 2e-10, 3e-10 and the 1e-9,
\* 2e-9, 3e-9 of the tests, values next to the tolerance, and their negatives
Deviations == {-30, -10, -9, 0, 1, 2, 3, 9, 10, 11, 20, 30}

\* the left sides: the origin of the tests and a point away from it
EqBases == {ORIGO, Coord(10000, -20000, 5)}

InitCoordEq ==
    /\ lhs \in EqBases
    /\ rhs \in {Coord(lhs.x + dx, lhs.y + dy, lhs.z + dz) :
                    dx \in Deviations, dy \in Deviations, dz \in Deviations}
    /\ equal = FALSE
    /\ lpc = "eq"
    /\ IdleExceptEq

\* lhs == rhs, and rhs == lhs
CoordEqCall ==
    /\ lpc \in {"eq", "compared"}
    /\ \/ /\ lpc = "eq"
          /\ equal' = CoordPartialEq(lhs, rhs)
          /\ lpc' = "compared"
          /\ UNCHANGED <<lhs, rhs>>
       \/ /\ lpc = "compared"
          /\ lhs' = rhs
          /\ rhs' = lhs
          /\ equal' = CoordPartialEq(rhs, lhs)
          /\ lpc' = "compared back"
    /\ UNCHANGED exceptEq

NextCoordEq == CoordEqCall

SpecCoordEq == InitCoordEq /\ [][NextCoordEq]_vars

(***************************************************************************)
(* The Poisson-disc generator (Bridson).  Positions are the points with    *)
(* integer coordinates of the area, squares of distances are exact, and    *)
(* the density is in thousandths of a point per unit area.                 *)
(***************************************************************************)
\* pi in thousandths
PiMilli == 3142

DistanceSq(p, q) == (p[1] - q[1]) * (p[1] - q[1]) + (p[2] - q[2]) * (p[2] - q[2])

\* a squared distance d2 is below r^2 = 2 / (pi * density)
BelowR(d2, density) == PiMilli * density * d2 < 2 * 1000 * 1000

\* a squared distance d2 is at most (2r)^2
WithinTwoR(d2, density) == PiMilli * density * d2 <= 4 * 2 * 1000 * 1000

\* the background grid has cells of size r / sqrt(2): the index of the cell
\* that holds the coordinate x is x / (r / sqrt(2)), rounded down
CellIndex(x, density) ==
    CHOOSE c \in 0..x :
        /\ c * c * 1000 * 1000 <= x * x * PiMilli * density
        /\ (c + 1) * (c + 1) * 1000 * 1000 > x * x * PiMilli * density

CellOf(p, density) == <<CellIndex(p[1], density), CellIndex(p[2], density)>>

DiscArea == (0..(DiscWidth - 1)) \X (0..(DiscHeight - 1))

DiscCells(density) == {CellOf(p, density) : p \in DiscArea}

\* the cells next to the cell c, up to reach cells away along each axis
Neighbours(d, c, reach) ==
    (((c[1] - reach)..(c[1] + reach)) \X ((c[2] - reach)..(c[2] + reach))) \cap DOMAIN d.grid

FarEnoughAdjacentCells(d, p) ==
    \A n \in Neighbours(d, CellOf(p, d.density), 1) :
        d.grid[n] # None => ~BelowR(DistanceSq(d.grid[n][1], p), d.density)

\* no accepted point in the neighbouring cells of the cell of p lies within r
\* of p; a point within r is at most two cells away
FarEnough(d, p) ==
    \A n \in Neighbours(d, CellOf(p, d.density), 2) :
        d.grid[n] # None => ~BelowR(DistanceSq(d.grid[n][1], p), d.density)

\* the candidates around the point p: the positions in the annulus [r, 2r]
\* around it; those outside the area are not accepted
Candidates(p, density) ==
    {q \in (-1..DiscWidth) \X (-1..DiscHeight) :
        /\ ~BelowR(DistanceSq(p, q), density)
        /\ WithinTwoR(DistanceSq(p, q), density)}

\* the point p is accepted: it is stored, put into its cell and made active
Accept(d, p) ==
    [d EXCEPT !.points = d.points \cup {p},
              !.grid = [d.grid EXCEPT ![CellOf(p, d.density)] = Some(p)],
              !.active = d.active \cup {p}]

FailedAttemptForgotten(d) == d

\* a candidate was not accepted: one attempt of the budget is used
FailedAttempt(d) == [d EXCEPT !.attempts = d.attempts + 1]

(***************************************************************************)
(* The Poisson-disc generator as a state machine                           *)
(***************************************************************************)
\* 0.064 points per unit area: r^2 = 9.95, cells of size 2.23
Densities == {64}

InitDisc ==
    /\ \E density \in Densities :
           disc = [density |-> density, points |-> {},
                   grid |-> [c \in DiscCells(density) |-> None],
                   active |-> {}, current |-> None, attempts |-> 0]
    /\ lpc = "seed"
    /\ IdleExceptDisc

\* the first point is drawn anywhere in the area
DiscSeed ==
    /\ lpc = "seed"
    /\ \E p \in DiscArea : disc' = Accept(disc, p)
    /\ lpc' = "pick"
    /\ UNCHANGED exceptDisc

\* a random active point is picked
DiscPick ==
    /\ lpc = "pick"
    /\ \E p \in disc.active : disc' = [disc EXCEPT !.current = Some(p), !.attempts = 0]
    /\ lpc' = "attempt"
    /\ UNCHANGED exceptDisc

\* one candidate around the picked point is drawn and tested
DiscAttempt ==
    /\ lpc = "attempt"
    /\ disc.attempts < MaxAttempts
    /\ \E q \in Candidates(disc.current[1], disc.density) :
           IF q \in DiscArea /\ FarEnough(disc, q)
           THEN /\ disc' = [Accept(disc, q) EXCEPT !.current = None]
                /\ lpc' = "pick"
           ELSE /\ disc' = FailedAttempt(disc)
                /\ lpc' = "attempt"
    /\ UNCHANGED exceptDisc

\* the attempts around the picked point are used up: it is retired
DiscRetire ==
    /\ lpc = "attempt"
    /\ disc.attempts >= MaxAttempts
    /\ disc' = [disc EXCEPT !.active = disc.active \ {disc.current[1]}, !.current = None]
    /\ lpc' = "pick"
    /\ UNCHANGED exceptDisc

\* no active point is left: the points are returned
DiscReturn ==
    /\ lpc = "pick"
    /\ disc.active = {}
    /\ lpc' = "disc done"
    /\ UNCHANGED <<oldVars, moreVars>>

NextDisc == DiscSeed \/ DiscPick \/ DiscAttempt \/ DiscRetire \/ DiscReturn

SpecDisc == InitDisc /\ [][NextDisc]_vars

\* the generator keeps running until it returns
SpecDiscLive == SpecDisc /\ WF_vars(NextDisc)

(***************************************************************************)
(* The blue-noise generator (Mitchell's best candidate).  Positions are    *)
(* the points with integer coordinates of the area.                        *)
(***************************************************************************)
\* select_lattice, choice BlueNoise
SelectLatticeBlueNoise == [name |-> "BlueNoise", number |-> 0]

AreaPoints(area) == (0..(area[1] - 1)) \X (0..(area[2] - 1))

\* larger than the square of every distance in an area
Farthest == 1000

\* the score of a candidate: its distance to the nearest accepted point
Score(points, c) ==
    IF points = <<>> THEN Farthest
    ELSE Min({DistanceSq(points[i], c) : i \in DOMAIN points})

\* the candidate with the largest score, the first of them among equals
BestCandidate(points, candidates) ==
    LET best == Max({Score(points, candidates[i]) : i \in DOMAIN candidates})
        earliest == Min({i \in DOMAIN candidates : Score(points, candidates[i]) = best})
    IN  candidates[earliest]

AcceptBestUnlessTaken(n) ==
    LET best == BestCandidate(n.points, n.candidates)
    IN  [n EXCEPT !.points = IF Score(n.points, best) = 0 THEN n.points
                             ELSE Append(n.points, best),
                  !.candidates = <<>>,
                  !.round = n.round + 1]

\* the end of a round: the best candidate is accepted
AcceptBest(n) ==
    [n EXCEPT !.points = Append(n.points, BestCandidate(n.points, n.candidates)),
              !.candidates = <<>>,
              !.round = n.round + 1]

(***************************************************************************)
(* The blue-noise generator as a state machine                             *)
(***************************************************************************)
\* areas of one point, of a row of points and of a square
NoiseAreas == {<<1, 1>>, <<3, 1>>, <<2, 2>>}

InitNoise ==
    /\ \E area \in NoiseAreas : noise = [NoNoise EXCEPT !.area = area]
    /\ lpc = "select_lattice"
    /\ IdleExceptNoise

\* select_lattice returns LatticeType::BlueNoise { number: 0 }
NoiseSelectLattice ==
    /\ lpc = "select_lattice"
    /\ noise' = [noise EXCEPT !.lattice_type = Some(SelectLatticeBlueNoise)]
    /\ lpc' = "construct"
    /\ UNCHANGED exceptNoise

\* the construction stage sets the number of points the user asks for
NoiseSetNumber ==
    /\ lpc = "construct"
    /\ \E number \in 0..MaxNumber :
           noise' = [noise EXCEPT !.lattice_type = Some([noise.lattice_type[1] EXCEPT
                                                            !.number = number])]
    /\ lpc' = "generate"
    /\ UNCHANGED exceptNoise

\* one candidate of the round is drawn anywhere in the area
NoiseDraw ==
    /\ lpc = "generate"
    /\ noise.round < noise.lattice_type[1].number
    /\ Len(noise.candidates) < NumCandidates
    /\ \E c \in AreaPoints(noise.area) :
           noise' = [noise EXCEPT !.candidates = Append(noise.candidates, c),
                                  !.drawn = noise.drawn + 1]
    /\ UNCHANGED <<lpc, exceptNoise>>

\* the candidates of the round are drawn: the best of them is accepted
NoiseAccept ==
    /\ lpc = "generate"
    /\ noise.round < noise.lattice_type[1].number
    /\ Len(noise.candidates) = NumCandidates
    /\ noise' = AcceptBest(noise)
    /\ UNCHANGED <<lpc, exceptNoise>>

\* all rounds are done: the points are returned
NoiseReturn ==
    /\ lpc = "generate"
    /\ noise.round >= noise.lattice_type[1].number
    /\ lpc' = "noise done"
    /\ UNCHANGED <<oldVars, moreVars>>

NextNoise == NoiseSelectLattice \/ NoiseSetNumber \/ NoiseDraw \/ NoiseAccept \/ NoiseReturn

SpecNoise == InitNoise /\ [][NextNoise]_vars

(***************************************************************************)
(* write_gromos.  A line is the record of the values that are formatted    *)
(* into it.                                                                *)
(***************************************************************************)
\* GROMOS files wrap atom and residue numbering after five digits
Wrap == 100000

RECURSIVE SumOfAtoms(_)
\* system.num_atoms(): the atoms of all residues
SumOfAtoms(residues) ==
    IF residues = <<>> THEN 0
    ELSE Len(residues[1].base.atoms) + SumOfAtoms(Tail(residues))

\* the body of the inner loop of write_gromos for the atom j of the residue i
\* (both from 0)
AtomLine(i, j, residue) ==
    LET residue_number == (i + 1) % Wrap
        atom_number == (j + 1) % Wrap
        position == CoordAdd(residue.position, residue.base.atoms[j + 1].position)
    IN  [kind |-> "atom",
         residue_number |-> residue_number,
         residue_code |-> residue.base.code,
         atom_code |-> residue.base.atoms[j + 1].code,
         atom_number |-> atom_number,
         position |-> position]

\* the inner loop of write_gromos for the residue i
ResidueLines(i, residue) ==
    [k \in 1..Len(residue.base.atoms) |-> AtomLine(i, k - 1, residue)]

(***************************************************************************)
(* write_gromos as a state machine                                         *)
(***************************************************************************)
\* residues of 0..MaxAtoms atoms at two positions
SystemResidues ==
    {[base |-> r, position |-> o] : r \in ComponentResidues, o \in OriginPool}

Systems ==
    {[residues |-> rs, dimensions |-> Coord(3000, 2000, 1000)] :
        rs \in SeqsUpTo(SystemResidues, MaxResidues)}

InitOut ==
    /\ \E system \in Systems :
           out = [system |-> system, title |-> "System", lines |-> <<>>, i |-> 0]
    /\ lpc = "write_gromos"
    /\ IdleExceptOut

\* the title and the number of atoms are written
OutHeader ==
    /\ lpc = "write_gromos"
    /\ out' = [out EXCEPT !.lines = <<[kind |-> "title", text |-> out.title],
                                      [kind |-> "num_atoms",
                                       number |-> SumOfAtoms(out.system.residues)]>>]
    /\ lpc' = "residues"
    /\ UNCHANGED exceptOut

\* one turn of the loop over the residues
OutResidue ==
    /\ lpc = "residues"
    /\ out.i < Len(out.system.residues)
    /\ out' = [out EXCEPT
                  !.lines = out.lines \o ResidueLines(out.i, out.system.residues[out.i + 1]),
                  !.i = out.i + 1]
    /\ UNCHANGED <<lpc, exceptOut>>

\* the dimensions are written and write_gromos returns
OutDimensions ==
    /\ lpc = "residues"
    /\ out.i = Len(out.system.residues)
    /\ out' = [out EXCEPT !.lines = Append(out.lines, [kind |-> "dimensions",
                                                       box |-> out.system.dimensions])]
    /\ lpc' = "written"
    /\ UNCHANGED exceptOut

NextOut == OutHeader \/ OutResidue \/ OutDimensions

SpecOut == InitOut /\ [][NextOut]_vars

(***************************************************************************)
(* Two calls of fill on clones of one cylinder with one fill type, as a    *)
(* state machine.  fill takes its generator from rand::thread_rng(), so    *)
(* the samples of the two calls are drawn independently.                   *)
(***************************************************************************)
InitFillTwice == InitCylinder

\* conf.clone().fill(FillType::NumCoords(n)) for the first time: the ranges
FillFirstRanges ==
    /\ lpc = "cylinder"
    /\ first = None
    /\ \E n \in 0..1 : fill_type' = Some(n)
    /\ lpc' = IF RangeNew(0, cylinder.radius) = None \/ RangeNew(0, cylinder.height) = None
              THEN "panicked" ELSE "fill"
    /\ UNCHANGED <<entry, crystal, size, req, builder, lattice, iterVars, compVars, moreVars,
                   cylinder, probe, inside, cbox, filling, draws, subVars>>

\* the first call has returned; conf.clone().fill(fill_type) is called again
FillAgain ==
    /\ lpc = "filled"
    /\ first = None
    /\ first' = Some(cylinder.coords)
    /\ cylinder' = [cylinder EXCEPT !.coords = <<>>]
    /\ filling' = <<>>
    /\ draws' = <<>>
    /\ lpc' = "fill"
    /\ UNCHANGED <<entry, crystal, size, req, builder, lattice, iterVars, compVars,
                   probe, inside, cbox, fill_type, subVars, besidesFirst>>

NextFillTwice == FillFirstRanges \/ FillGenCoord \/ FillCollect \/ FillAgain

SpecFillTwice == InitFillTwice /\ [][NextFillTwice]_vars

(***************************************************************************)
(* user_menu of the system definitions and of the component definitions    *)
(***************************************************************************)
\* longest list of definitions
MaxDefs == 3

\* the definitions a user can create
Definitions == {"sheet", "cylinder"}

\* Vec::remove at a 0-based index
VecRemove(list, i) == [k \in 1..(Len(list) - 1) |-> IF k <= i THEN list[k] ELSE list[k + 1]]

\* utils::remove_item: the index the user typed, or an error for an index
\* that is not in the list, which is left alone
RemoveItem(list, i) ==
    IF i < Len(list) THEN [ok |-> TRUE, list |-> VecRemove(list, i)]
    ELSE [ok |-> FALSE, list |-> list]

\* utils::swap_items: two indices of the list, or an error
SwapItems(list, i, j) ==
    IF i < Len(list) /\ j < Len(list)
    THEN [ok |-> TRUE, list |-> [list EXCEPT ![i + 1] = list[j + 1], ![j + 1] = list[i + 1]]]
    ELSE [ok |-> FALSE, list |-> list]

\* Vec::insert at a 0-based index
VecInsert(list, i, item) ==
    [k \in 1..(Len(list) + 1) |-> IF k <= i THEN list[k]
                                  ELSE IF k = i + 1 THEN item ELSE list[k - 1]]

\* utils::reorder_list: the item at i is moved to position j, or an error
ReorderList(list, i, j) ==
    IF i < Len(list) /\ j < Len(list)
    THEN [ok |-> TRUE, list |-> VecInsert(VecRemove(list, i), j, list[i + 1])]
    ELSE [ok |-> FALSE, list |-> list]

\* an abort that puts the backup after the edited list instead of replacing it
QuitWithoutSavingExtends(list, backup) == list \o backup

\* QuitWithoutSaving: system_defs.clear(); system_defs.extend_from_slice(&backup),
\* and *component_list = components_backup
QuitWithoutSaving(list, backup) == backup

\* the two menus
MenuKinds == {"system", "component"}

\* user_menu is entered with a list and clones it
InitMenu ==
    /\ \E kind \in MenuKinds, list \in SeqsUpTo(Definitions, MaxDefs) :
           menu = [kind |-> kind, list |-> list, backup |-> list, entered |-> list,
                   before |-> list, last |-> "none"]
    /\ lpc = "menu"
    /\ IdleExceptMenu

\* the list after a command, with the command remembered
MenuAfter(cmd, list) == [menu EXCEPT !.list = list, !.before = menu.list, !.last = cmd]

\* DefineSystem / AddComponent: a created definition is pushed, a failed
\* creation is reported
MenuAdd ==
    /\ lpc = "menu"
    /\ \/ \E def \in Definitions :
             /\ Len(menu.list) < MaxDefs
             /\ menu' = MenuAfter("add", Append(menu.list, def))
       \/ menu' = MenuAfter("add failed", menu.list)
    /\ UNCHANGED <<lpc, exceptMenu>>

\* RemoveSystem / RemoveComponent
MenuRemove ==
    /\ lpc = "menu"
    /\ \E i \in 0..MaxDefs :
           LET r == RemoveItem(menu.list, i)
           IN  menu' = MenuAfter(IF r.ok THEN "remove" ELSE "remove failed", r.list)
    /\ UNCHANGED <<lpc, exceptMenu>>

\* SwapSystems, of the system menu
MenuSwap ==
    /\ lpc = "menu"
    /\ menu.kind = "system"
    /\ \E i \in 0..MaxDefs, j \in 0..MaxDefs :
           LET r == SwapItems(menu.list, i, j)
           IN  menu' = MenuAfter(IF r.ok THEN "swap" ELSE "swap failed", r.list)
    /\ UNCHANGED <<lpc, exceptMenu>>

\* ReorderList, of the component menu
MenuReorder ==
    /\ lpc = "menu"
    /\ menu.kind = "component"
    /\ \E i \in 0..MaxDefs, j \in 0..MaxDefs :
           LET r == ReorderList(menu.list, i, j)
           IN  menu' = MenuAfter(IF r.ok THEN "reorder" ELSE "reorder failed", r.list)
    /\ UNCHANGED <<lpc, exceptMenu>>

\* a selection that is no command of the menu
MenuInvalid ==
    /\ lpc = "menu"
    /\ menu' = MenuAfter("invalid", menu.list)
    /\ UNCHANGED <<lpc, exceptMenu>>

\* QuitAndSave
MenuQuitAndSave ==
    /\ lpc = "menu"
    /\ menu' = MenuAfter("finish", menu.list)
    /\ lpc' = "menu finished"
    /\ UNCHANGED exceptMenu

\* QuitWithoutSaving
MenuQuitWithoutSaving ==
    /\ lpc = "menu"
    /\ menu' = MenuAfter("abort", QuitWithoutSaving(menu.list, menu.backup))
    /\ lpc' = "menu aborted"
    /\ UNCHANGED exceptMenu

\* reading the selection fails: user_menu returns the error
MenuInputError ==
    /\ lpc = "menu"
    /\ menu' = MenuAfter("input error", menu.list)
    /\ lpc' = "menu error"
    /\ UNCHANGED exceptMenu

NextMenu ==
    \/ MenuAdd
    \/ MenuRemove
    \/ MenuSwap
    \/ MenuReorder
    \/ MenuInvalid
    \/ MenuQuitAndSave
    \/ MenuQuitWithoutSaving
    \/ MenuInputError

SpecMenu == InitMenu /\ [][NextMenu]_vars

(***************************************************************************)
(* new_component and the component builders                                *)
(***************************************************************************)
\* the names a user can type, the empty one among them
Names == {"", "cnt"}

\* the lattices select_lattice can return
LatticeTypes == {"Hexagonal", "BlueNoise"}

\* the densities get_density can return
DensityChoices == {None, Some(1)}

\* UIErrorKind of a failed or aborted input
UIErrorKinds == {"Abort", "BadValue"}

\* enum ComponentType
ComponentTypes == {"Surface", "Volume"}

\* the lattice of a cylinder or cuboid builder: selected for a Surface only
LatticeOfType(type, selected) == IF type = "Surface" THEN Some(selected) ELSE None

SheetBuilderInitialize(selected) ==
    [NoComponentBuilder EXCEPT !.component = "Sheet", !.lattice = Some(selected)]

CylinderBuilderInitialize(cylinder_type, selected) ==
    [NoComponentBuilder EXCEPT !.component = "Cylinder", !.type = cylinder_type,
                      !.lattice = LatticeOfType(cylinder_type, selected)]

CuboidBuilderInitialize(cuboid_type, selected) ==
    [NoComponentBuilder EXCEPT !.component = "Cuboid", !.type = cuboid_type,
                      !.lattice = LatticeOfType(cuboid_type, selected)]

SpheroidBuilderInitialize == [NoComponentBuilder EXCEPT !.component = "Spheroid"]

\* a change of type that forgets to select or clear the lattice
ChangeTypeKeepsLattice(b, new_type, selected) == [b EXCEPT !.type = new_type]

\* ChangeCylinderType / ChangeCuboidType with a type and, for a Surface, a
\* lattice selected
ChangeType(b, new_type, selected) ==
    [b EXCEPT !.type = new_type, !.lattice = LatticeOfType(new_type, selected)]

\* the results of finalize: a component entry, a refusal, or a panic
Entry(variant, b) ==
    [ok |-> TRUE, panic |-> FALSE, variant |-> variant, name |-> b.name,
     lattice |-> b.lattice, density |-> b.density]
Refused(msg) ==
    [ok |-> FALSE, panic |-> FALSE, variant |-> msg, name |-> "", lattice |-> None,
     density |-> None]
Panic ==
    [ok |-> FALSE, panic |-> TRUE, variant |-> "unwrap on None", name |-> "",
     lattice |-> None, density |-> None]

SheetBuilderFinalize(b) ==
    IF b.name = "" THEN Refused("No name is set") ELSE Entry("SurfaceSheet", b)

CylinderBuilderFinalize(b) ==
    IF b.name = "" THEN Refused("No name is set")
    ELSE IF b.type = "Surface"
         THEN IF IsSome(b.lattice) THEN Entry("SurfaceCylinder", b) ELSE Panic
         ELSE Entry("VolumeCylinder", [b EXCEPT !.lattice = None])

\* a cuboid finalize that forgets the name of a Volume cuboid
CuboidBuilderFinalizeUnnamed(b) ==
    IF b.type = "Volume" THEN Entry("VolumeCuboid", [b EXCEPT !.lattice = None])
    ELSE IF b.name = "" THEN Refused("No name is set")
    ELSE IF ~IsSome(b.lattice) THEN Refused("No lattice is set")
    ELSE Entry("SurfaceCuboid", b)

CuboidBuilderFinalize(b) ==
    IF b.type = "Volume"
    THEN IF b.name = "" THEN Refused("No name is set")
         ELSE Entry("VolumeCuboid", [b EXCEPT !.lattice = None])
    ELSE IF b.name = "" THEN Refused("No name is set")
    ELSE IF ~IsSome(b.lattice) THEN Refused("No lattice is set")
    ELSE Entry("SurfaceCuboid", b)

SpheroidBuilderFinalize(b) ==
    IF b.name = "" THEN Refused("No name is set") ELSE Entry("VolumeSpheroid", b)

\* builder.finalize() of the builder at hand
BuilderFinalize(b) ==
    CASE b.component = "Sheet" -> SheetBuilderFinalize(b)
      [] b.component = "Cylinder" -> CylinderBuilderFinalize(b)
      [] b.component = "Cuboid" -> CuboidBuilderFinalize(b)
      [] b.component = "Spheroid" -> SpheroidBuilderFinalize(b)

\* the builders with a type
Typed == {"Cylinder", "Cuboid"}

\* new_component with the error of a construction menu: an Abort ends it,
\* anything else is reported and the type selection comes again
AfterError(kind, tag) ==
    IF kind = "Abort"
    THEN /\ lpc' = "new_component done"
         /\ component_builder' = [component_builder EXCEPT
                !.last = tag, !.result = Some([ok |-> FALSE, kind |-> kind])]
    ELSE /\ lpc' = "select_component_type"
         /\ component_builder' = [component_builder EXCEPT !.last = tag]

InitNewComponent ==
    /\ component_builder = NoComponentBuilder
    /\ lpc = "select_component_type"
    /\ IdleExceptNewComponent

\* select_component_type returns Abort
SelectAbort ==
    /\ lpc = "select_component_type"
    /\ lpc' = "new_component done"
    /\ component_builder' = [component_builder EXCEPT
           !.last = "abort selected", !.result = Some([ok |-> FALSE, kind |-> "Abort"])]
    /\ UNCHANGED exceptNewComponent

\* select_component_type fails: the ? hands its error to the caller
SelectFails ==
    /\ lpc = "select_component_type"
    /\ \E kind \in UIErrorKinds :
           /\ lpc' = "new_component done"
           /\ component_builder' = [component_builder EXCEPT
                  !.last = "select_component_type failed",
                  !.result = Some([ok |-> FALSE, kind |-> kind])]
    /\ UNCHANGED exceptNewComponent

\* a component type is selected and its builder initialized
BuilderInitialize ==
    /\ lpc = "select_component_type"
    /\ \E selected \in LatticeTypes, type \in ComponentTypes :
           component_builder' \in
               {[b EXCEPT !.last = "initialized"] :
                   b \in {SheetBuilderInitialize(selected),
                          CylinderBuilderInitialize(type, selected),
                          CuboidBuilderInitialize(type, selected),
                          SpheroidBuilderInitialize}}
    /\ lpc' = "create"
    /\ UNCHANGED exceptNewComponent

\* a selection of initialize fails: create_* returns the error
BuilderInitializeFails ==
    /\ lpc = "select_component_type"
    /\ \E kind \in UIErrorKinds : AfterError(kind, "initialize failed")
    /\ UNCHANGED exceptNewComponent

\* ChangeComponent
BuilderChangeComponent ==
    /\ lpc = "create"
    /\ lpc' = "select_component_type"
    /\ component_builder' = [component_builder EXCEPT !.last = "change component"]
    /\ UNCHANGED exceptNewComponent

\* ChangeCylinderType / ChangeCuboidType
BuilderChangeType ==
    /\ lpc = "create"
    /\ component_builder.component \in Typed
    /\ \/ \E new_type \in ComponentTypes, selected \in LatticeTypes :
             /\ component_builder' =
                    [ChangeType(component_builder, new_type, selected)
                        EXCEPT !.last = "type changed"]
             /\ lpc' = lpc
       \/ /\ component_builder' = [component_builder EXCEPT !.last = "select type failed"]
          /\ lpc' = lpc
       \/ \E kind \in UIErrorKinds : AfterError(kind, "select_lattice failed")
    /\ UNCHANGED exceptNewComponent

\* SetName
BuilderSetName ==
    /\ lpc = "create"
    /\ \/ \E new_name \in Names :
             component_builder' = [component_builder EXCEPT
                 !.name = new_name, !.last = "name set"]
       \/ component_builder' = [component_builder EXCEPT !.last = "name failed"]
    /\ UNCHANGED <<lpc, exceptNewComponent>>

\* SetLattice, of the sheet menu
BuilderSetLattice ==
    /\ lpc = "create"
    /\ component_builder.component = "Sheet"
    /\ \/ \E new_lattice \in LatticeTypes :
             component_builder' = [component_builder EXCEPT
                 !.lattice = Some(new_lattice), !.last = "lattice set"]
       \/ component_builder' = [component_builder EXCEPT !.last = "lattice failed"]
    /\ UNCHANGED <<lpc, exceptNewComponent>>

\* SetDensity, of the volume menus
BuilderSetDensity ==
    /\ lpc = "create"
    /\ \/ component_builder.component = "Spheroid"
       \/ component_builder.component \in Typed /\ component_builder.type = "Volume"
    /\ \/ \E density \in DensityChoices :
             component_builder' = [component_builder EXCEPT
                 !.density = density, !.last = "density set"]
       \/ component_builder' = [component_builder EXCEPT !.last = "density failed"]
    /\ UNCHANGED <<lpc, exceptNewComponent>>

\* QuitAndSave
BuilderQuitAndSave ==
    /\ lpc = "create"
    /\ LET r == BuilderFinalize(component_builder)
       IN  \/ /\ r.ok
              /\ lpc' = "new_component done"
              /\ component_builder' = [component_builder EXCEPT
                     !.last = "finalized", !.result = Some(r)]
           \/ /\ ~r.ok /\ ~r.panic
              /\ lpc' = lpc
              /\ component_builder' = [component_builder EXCEPT !.last = "finalize refused"]
           \/ /\ r.panic
              /\ lpc' = "finalize panicked"
              /\ component_builder' = [component_builder EXCEPT !.last = "finalize panicked"]
    /\ UNCHANGED exceptNewComponent

\* QuitWithoutSaving
BuilderQuitWithoutSaving ==
    /\ lpc = "create"
    /\ AfterError("Abort", "abort")
    /\ UNCHANGED exceptNewComponent

\* select_command of a construction menu fails
BuilderCommandFails ==
    /\ lpc = "create"
    /\ \E kind \in UIErrorKinds : AfterError(kind, "select_command failed")
    /\ UNCHANGED exceptNewComponent

NextNewComponent ==
    \/ SelectAbort
    \/ SelectFails
    \/ BuilderInitialize
    \/ BuilderInitializeFails
    \/ BuilderChangeComponent
    \/ BuilderChangeType
    \/ BuilderSetName
    \/ BuilderSetLattice
    \/ BuilderSetDensity
    \/ BuilderQuitAndSave
    \/ BuilderQuitWithoutSaving
    \/ BuilderCommandFails

SpecNewComponent == InitNewComponent /\ [][NextNewComponent]_vars

(***************************************************************************)
(* Properties of the lattice generator                                     *)
(***************************************************************************)
Range(s) == {s[i] : i \in DOMAIN s}

Done == lpc = "done"

IsHexagonal == crystal.lattice_type = "Hexagonal"

\* the least multiple of m that is >= n
LeastMultipleAtLeast(n, m) ==
    CHOOSE k \in n..(n + m) : k % m = 0 /\ \A j \in n..(k - 1) : j % m # 0

\* the replica counts the points are placed with
FinalNx == IF IsHexagonal THEN LeastMultipleAtLeast(req[1], 3) ELSE req[1]
FinalNy == IF IsHexagonal THEN LeastMultipleAtLeast(req[2], 2) ELSE req[2]

\* C1: a hexagonal lattice requested with (nx, ny) has the coordinate sequence
\* and the box_size of the one built with (nx', ny'), nx' the least multiple of
\* 3 that is >= nx and ny' the least multiple of 2 that is >= ny.
C1_HexagonalPeriodicity ==
    (Done /\ IsHexagonal) =>
        LET expected == LatticeBuilderNew(crystal, LeastMultipleAtLeast(req[1], 3),
                                          LeastMultipleAtLeast(req[2], 2))
        IN  /\ lattice.coords = expected.coords
            /\ lattice.box_size = expected.box_size

\* (4, 1) has been built and came out as the 8 points of (6, 2)
C1_Witness ==
    /\ Done /\ IsHexagonal /\ entry = "new"
    /\ req = <<4, 1>>
    /\ Len(lattice.coords) = 8
    /\ lattice = LatticeBuilderNew(crystal, 6, 2)

\* C6: a generic lattice of (nx, ny) has nx*ny points, the point of (row, col)
\* at place row*nx + col of the sequence and equal to
\* (col*dx + row*dx_per_row, row*dy, 0).
C6_GenericGrid ==
    (Done /\ ~IsHexagonal) =>
        LET sp == CrystalSpacing(crystal)
            nx == req[1]
            ny == req[2]
        IN  /\ Len(lattice.coords) = nx * ny
            /\ \A row \in 0..(ny - 1), col \in 0..(nx - 1) :
                   lattice.coords[row * nx + col + 1]
                       = Coord(col * sp.dx + row * sp.dx_per_row, row * sp.dy, 0)

\* the 3 x 2 lattice of the test triclinic_lattice, its fourth point sheared
C6_Witness ==
    /\ Done /\ ~IsHexagonal /\ entry = "new"
    /\ crystal = CrystalTriclinic(1, 1, 60)
    /\ req = <<3, 2>>
    /\ Len(lattice.coords) = 6
    /\ lattice.coords[4] = Coord(500, 866, 0)

\* C7: a hexagonal lattice holds the grid point of (row, col) iff
\* (col + row + 1) mod 3 # 0, over the adjusted counts; every row keeps two of
\* every three columns and the lattice has 2*nx'*ny'/3 points.
C7_HexagonalKeepRule ==
    (Done /\ IsHexagonal) =>
        LET sp == CrystalSpacing(crystal)
            nx == FinalNx
            ny == FinalNy
            At(row, col) == Coord(col * sp.dx + row * sp.dx_per_row, row * sp.dy, 0)
        IN  /\ 3 * Len(lattice.coords) = 2 * nx * ny
            /\ Cardinality(Range(lattice.coords)) = Len(lattice.coords)
            /\ \A row \in 0..(ny - 1), col \in 0..(nx - 1) :
                   (At(row, col) \in Range(lattice.coords)) <=> ((col + row + 1) % 3 # 0)
            /\ \A row \in 0..(ny - 1), k \in 0..((nx \div 3) - 1) :
                   Cardinality({col \in (3 * k)..(3 * k + 2) :
                                    At(row, col) \in Range(lattice.coords)}) = 2

\* the lattice of the test hexagonal_lattice_has_empty_points: (0, 2) is removed
C7_Witness ==
    /\ Done /\ IsHexagonal /\ entry = "new"
    /\ crystal = CrystalHexagonal(1)
    /\ req = <<6, 2>>
    /\ Len(lattice.coords) = 8
    /\ Coord(2000, 0, 0) \notin Range(lattice.coords)
    /\ lattice.coords[5] = Coord(-500, 866, 0)

\* C8: box_size is (nx_final*dx, ny_final*dy, 0) for the counts the points are
\* placed with, and not the size of the counts as requested where the two differ.
C8_BoxSizeFromFinalCounts ==
    Done =>
        LET sp == CrystalSpacing(crystal)
        IN  /\ lattice.box_size = Coord(FinalNx * sp.dx, FinalNy * sp.dy, 0)
            /\ (FinalNx # req[1]) => lattice.box_size.x # req[1] * sp.dx
            /\ (FinalNy # req[2]) => lattice.box_size.y # req[2] * sp.dy

\* a hexagonal lattice requested with (4, 1) has the box of (6, 2)
C8_Witness ==
    /\ Done /\ IsHexagonal
    /\ crystal = CrystalHexagonal(2)
    /\ req = <<4, 1>>
    /\ lattice.box_size = Coord(12000, 3464, 0)

\* n is a nearest integer of s/d (d > 0), taken to u64: a negative one becomes 0
IsNearestCount(n, s, d) ==
    \E k \in -(MaxSizeSteps + 3)..(MaxSizeSteps + 3) :
        /\ 2 * k * d - d <= 2 * s
        /\ 2 * s <= 2 * k * d + d
        /\ n = IF k < 0 THEN 0 ELSE k

\* C9: Lattice::from_size gives the lattice of Lattice::new with the counts
\* size/spacing rounded to the nearest integer (as u64), and its box_size is an
\* integer multiple of (dx, dy).
C9_FromSizeRoundsToNearest ==
    (Done /\ entry = "from_size") =>
        LET sp == CrystalSpacing(crystal)
        IN  /\ IsNearestCount(req[1], size[1], sp.dx)
            /\ IsNearestCount(req[2], size[2], sp.dy)
            /\ lattice = LatticeBuilderNew(crystal, req[1], req[2])
            /\ \E kx \in 0..(MaxSizeSteps + 3), ky \in 0..(MaxSizeSteps + 3) :
                   /\ lattice.box_size.x = kx * sp.dx
                   /\ lattice.box_size.y = ky * sp.dy

\* the test hexagonal_lattice_from_size: (2.1, 0.9) gives the lattice of (3, 2)
C9_Witness ==
    /\ Done /\ entry = "from_size"
    /\ crystal = CrystalHexagonal(1)
    /\ size = <<2100, 900>>
    /\ req = <<2, 1>>
    /\ lattice = LatticeBuilderNew(crystal, 3, 2)
    /\ lattice.box_size # Coord(2100, 900, 0)

Extent(S) == Max(S) - Min(S)

\* C10: the box_size of a lattice spans at least the extent of its points along
\* every axis.
C10_BoxSpansExtent ==
    (Done /\ lattice.coords # <<>>) =>
        /\ Extent({c.x : c \in Range(lattice.coords)}) <= lattice.box_size.x
        /\ Extent({c.y : c \in Range(lattice.coords)}) <= lattice.box_size.y
        /\ Extent({c.z : c \in Range(lattice.coords)}) <= lattice.box_size.z

(***************************************************************************)
(* Properties of the atom iterator                                         *)
(***************************************************************************)
\* next() has returned None
Exhausted == ret.called /\ ret.item = None

NumPoints == Len(iter.coords)
NumAtoms == IF IsSome(iter.residue) THEN Len(Unwrap(iter.residue).atoms) ELSE 0

\* C2: with a residue of A atoms and P points the iterator yields P*A records
\* until it is exhausted, and the k-th record (k from 0) has atom_index = k.
C2_StampCountAndIndex ==
    IsSome(iter.residue) =>
        /\ \A k \in 0..(Len(yielded) - 1) : yielded[k + 1].atom_index = k
        /\ Len(yielded) <= NumPoints * NumAtoms
        /\ Exhausted => Len(yielded) = NumPoints * NumAtoms

\* 2 points and 2 atoms, as in the test: 4 records and the third has index 2
C2_Witness ==
    /\ Exhausted
    /\ NumPoints = 2 /\ NumAtoms = 2
    /\ Len(yielded) = 4
    /\ yielded[3].atom_index = 2

\* C3: the records come point by point and in template order: record k has
\* residue_index = k div A and the (k mod A)-th template atom; residue_index
\* never decreases and, at exhaustion, each of 0..P-1 occurs exactly A times.
C3_StampOrderAndUnitIndex ==
    IsSome(iter.residue) =>
        LET residue == Unwrap(iter.residue)
            A == NumAtoms
        IN  /\ \A k \in 0..(Len(yielded) - 1) :
                   /\ yielded[k + 1].residue_index = k \div A
                   /\ yielded[k + 1].atom = residue.atoms[(k % A) + 1]
                   /\ yielded[k + 1].residue = residue
            /\ \A j, k \in 1..Len(yielded) :
                   j <= k => yielded[j].residue_index <= yielded[k].residue_index
            /\ Exhausted =>
                   \A u \in 0..(NumPoints - 1) :
                       Cardinality({k \in 1..Len(yielded) : yielded[k].residue_index = u}) = A

\* 3 points and 2 different atoms: the third record is the first atom of point 1
C3_Witness ==
    /\ Exhausted
    /\ NumPoints = 3 /\ NumAtoms = 2
    /\ Unwrap(iter.residue).atoms[1] # Unwrap(iter.residue).atoms[2]
    /\ Len(yielded) = 6
    /\ yielded[3].residue_index = 1
    /\ yielded[3].atom = Unwrap(iter.residue).atoms[1]

C5_EmptyInputsYieldNothing ==
    (NumPoints = 0 \/ iter.residue = None) =>
        /\ yielded = <<>>
        /\ ret.called => ret.item = None

\* the test atom_iterator_with_no_residue_is_empty: a point, no residue, None
C5_Witness ==
    /\ iter.residue = None
    /\ NumPoints = 1
    /\ ret.called /\ ret.item = None
    /\ yielded = <<>>

(***************************************************************************)
(* Properties of components and of translate                               *)
(***************************************************************************)
\* C11: num_atoms is (atoms of the residue base) * (residue coordinates), also
\* with no coordinates or no atoms, and it is the number of records the atom
\* iterator yields for the component.
C11_NumAtomsIsProduct ==
    (lpc \in {"counted", "iterating"}) =>
        /\ count = Cardinality((DOMAIN component.residue_base.atoms)
                                   \X (DOMAIN component.residue_coords))
        /\ (lpc = "iterating" /\ Exhausted) => Len(yielded) = count

\* 3 atoms on 2 points, as in the test count_atoms_in_component: 6 atoms, 6 records
C11_Witness ==
    /\ lpc = "iterating" /\ Exhausted
    /\ Len(component.residue_base.atoms) = 3
    /\ Len(component.residue_coords) = 2
    /\ count = 6
    /\ Len(yielded) = 6

\* c after translate by each vector of vs in turn, in float arithmetic
RECURSIVE ShiftedBy(_, _)
ShiftedBy(c, vs) ==
    IF vs = <<>> THEN c
    ELSE ShiftedBy(Coord(F64Round(c.x + Head(vs).x), F64Round(c.y + Head(vs).y),
                         F64Round(c.z + Head(vs).z)), Tail(vs))

\* C12: Lattice::translate(v) adds v to every coordinate, keeps their number and
\* order and leaves box_size as it was.
C12_LatticeTranslateFrame ==
    (lpc = "lattice") =>
        /\ Len(lattice.coords) = Len(source.coords)
        /\ \A i \in DOMAIN source.coords :
               lattice.coords[i] = ShiftedBy(source.coords[i], shifts)
        /\ lattice.box_size = source.box_size

\* a lattice of two points moved by (-0.5, 0.5, 1.0), as in the test translate_lattice
C12_Witness ==
    /\ lpc = "lattice"
    /\ shifts = <<Coord(-500, 500, 1000)>>
    /\ source.coords = <<Coord(0, 0, 0), Coord(1000, 0, 0)>>
    /\ lattice.coords = <<Coord(-500, 500, 1000), Coord(500, 500, 1000)>>
    /\ lattice.box_size = Coord(2000, 1000, 0)

\* Coord equality within the tolerance 1e-9: the unit being 1e-3, two values
\* of the model differ by less than 1e-9 only if they do not differ
WithinAtol(a, b) == Abs(a - b) = 0

CoordEq(a, b) == WithinAtol(a.x, b.x) /\ WithinAtol(a.y, b.y) /\ WithinAtol(a.z, b.z)

RoundTrip == Len(shifts) = 2 /\ shifts[2] = CoordNeg(shifts[1])

\* every position translate acts on is where it was before the calls
Restored ==
    IF lpc = "lattice"
    THEN /\ Len(lattice.coords) = Len(source.coords)
         /\ \A i \in DOMAIN source.coords : CoordEq(lattice.coords[i], source.coords[i])
    ELSE /\ CoordEq(component.origin, source.origin)
         /\ component.residue_coords = source.residue_coords

\* the positions translate acts on
Positions ==
    IF lpc = "lattice" THEN Range(source.coords) ELSE {source.origin}

\* x + v and x stay where every sum of the floats is exact
Exact(x, v) == Abs(x) + Abs(v) < 2 ^ SignificandBits

\* C13 as claimed: translating by v and then by -v restores all positions within
\* the tolerance, for every lattice, component and vector.
C13_RoundTripRestoresAlways ==
    (lpc \in {"lattice", "component"} /\ RoundTrip) => Restored

\* C13 as amended: translating by v and then by -v restores all positions
\* within the tolerance, with the same count and order, when the positions
\* and v are small enough for the float sums to carry no rounding error above
\* the tolerance.
C13_RoundTripRestoresInRange ==
    (/\ lpc \in {"lattice", "component"}
     /\ RoundTrip
     /\ \A c \in Positions :
            /\ Exact(c.x, shifts[1].x)
            /\ Exact(c.y, shifts[1].y)
            /\ Exact(c.z, shifts[1].z))
        => Restored

\* a lattice of several points moved by (-0.5, 0.5, 1.0) and back
C13_Witness ==
    /\ lpc = "lattice"
    /\ shifts = <<Coord(-500, 500, 1000), Coord(500, -500, -1000)>>
    /\ Len(source.coords) >= 2
    /\ lattice.coords = source.coords

\* C14: Component::translate(v) moves the origin by v and leaves residue_coords,
\* box_size and residue_base as they are in the component it was cloned from.
C14_ComponentTranslateFrame ==
    (lpc = "component") =>
        /\ component.origin = ShiftedBy(source.origin, shifts)
        /\ component.residue_coords = source.residue_coords
        /\ component.box_size = source.box_size
        /\ component.residue_base = source.residue_base

\* a component with coordinates, moved once: only its origin differs
C14_Witness ==
    /\ lpc = "component"
    /\ shifts = <<Coord(-500, 500, 1000)>>
    /\ source.origin = Coord(500, 600, 700)
    /\ component.origin = Coord(0, 1100, 1700)
    /\ Len(component.residue_coords) = 2
    /\ component.residue_coords = source.residue_coords

(***************************************************************************)
(* Properties of the cylinder                                              *)
(***************************************************************************)
\* the height of the offset d along the axis a, and the square of its distance
\* from that axis
AxisHeight(a, d) == CASE a = "X" -> d.x [] a = "Y" -> d.y [] a = "Z" -> d.z

RadialSquare(a, d) ==
    CASE a = "X" -> d.y * d.y + d.z * d.z
      [] a = "Y" -> d.x * d.x + d.z * d.z
      [] a = "Z" -> d.x * d.x + d.y * d.y

\* p lies in the closed cylinder of radius R and height H that stands at o along a
InClosedCylinder(a, o, R, H, p) ==
    LET d == Coord(p.x - o.x, p.y - o.y, p.z - o.z)
    IN  /\ R >= 0
        /\ RadialSquare(a, d) <= R * R
        /\ 0 <= AxisHeight(a, d)
        /\ AxisHeight(a, d) <= H

\* C15: contains(p) is true exactly when p, taken relative to the origin of the
\* cylinder and decomposed along its alignment axis, has a radial distance of
\* at most the radius and a height in the closed interval [0, height]: points
\* on the wall and on the caps are inside, points one step beyond are outside.
C15_ContainsClosedCylinder ==
    lpc = "contains" =>
        (inside <=> InClosedCylinder(cylinder.alignment, cylinder.origin,
                                     cylinder.radius, cylinder.height, probe[1]))

\* contains has accepted a point that lies on the wall, off the coordinate
\* planes through the axis, and on the top cap
C15_Witness ==
    /\ lpc = "contains"
    /\ inside
    /\ cylinder.radius > 0
    /\ LET d == CoordSub(probe[1], cylinder.origin)
       IN  /\ RadialSquare(cylinder.alignment, d) = cylinder.radius * cylinder.radius
           /\ AxisHeight(cylinder.alignment, d) = cylinder.height
           /\ d.x # 0 /\ d.y # 0 /\ d.z # 0

\* C16: when fill is called with an explicit count n and returns, the cylinder
\* has exactly n coordinates, and each of them, measured from the local origin
\* along the alignment axis, has a radial distance of at most the radius and a
\* height in [0, height], for each of the alignments X, Y and Z.
C16_FillCountAndContainment ==
    lpc = "filled" =>
        /\ Len(cylinder.coords) = fill_type[1]
        /\ \A i \in DOMAIN cylinder.coords :
               InClosedCylinder(cylinder.alignment, ORIGO, cylinder.radius,
                                cylinder.height, cylinder.coords[i])

\* fill has returned two or more coordinates for a cylinder along X, one of
\* them off the axis and above the bottom cap
C16_Witness ==
    /\ lpc = "filled"
    /\ cylinder.alignment = "X"
    /\ Len(cylinder.coords) >= 2
    /\ \E i \in DOMAIN cylinder.coords :
           /\ cylinder.coords[i].x > 0
           /\ cylinder.coords[i].y # 0
           /\ cylinder.coords[i].z # 0

\* C17: the radial distance r of each generated point is R * sqrt(u) for the
\* sample u = k / DrawSteps the generator handed out for it, that is
\* r^2 = R^2 * u; it is not the sample R * u of a range over [0, R).
C17_RadiusIsAreaUniform ==
    lpc \in {"fill", "filled"} =>
        \A i \in DOMAIN filling :
            RadialSquare(cylinder.alignment, filling[i]) * DrawSteps
                = cylinder.radius * cylinder.radius * draws[i].radius

\* C18: the box size of a cylinder is its height along the alignment axis and
\* its diameter along the two other axes.
C18_BoxSizeAlongAlignment ==
    lpc = "box" =>
        LET h == cylinder.height
            d == 2 * cylinder.radius
        IN  /\ cylinder.alignment = "X" => cbox[1] = Coord(h, d, d)
            /\ cylinder.alignment = "Y" => cbox[1] = Coord(d, h, d)
            /\ cylinder.alignment = "Z" => cbox[1] = Coord(d, d, h)

\* calc_box_size has answered for a cylinder along Y whose height differs
\* from its diameter
C18_Witness ==
    /\ lpc = "box"
    /\ cylinder.alignment = "Y"
    /\ cylinder.radius > 0
    /\ cylinder.height > 0
    /\ cylinder.height # 2 * cylinder.radius
    /\ cbox[1].y = cylinder.height

(***************************************************************************)
(* Properties of create_substrate                                          *)
(***************************************************************************)
\* C19: with a zero or negative size_x or size_y no grid point and no atom is
\* ever generated, and what create_substrate returns is an error, not a
\* substrate.
C19_NonPositiveSizeRejected ==
    (substrate.size_x <= 0 \/ substrate.size_y <= 0) =>
        /\ grid = None
        /\ atom_list = <<>>
        /\ lpc \in {"create_substrate", "returned"}
        /\ lpc = "returned" => result # None /\ ~result[1].ok

\* create_substrate has returned for graphene with a positive size_x and a
\* size_y of zero
C19_Witness ==
    /\ lpc = "returned"
    /\ substrate.conf = "Graphene"
    /\ substrate.size_x > 0
    /\ substrate.size_y = 0
    /\ result = Some(Err("input sizes of the system have to be positive"))

\* C20: a lattice is never made from a zero or negative size: from_size
\* reports an error instead, and does not turn the size into a replica count
\* of 0.
C20_NonPositiveSizeRejected ==
    (entry = "from_size" /\ (size[1] <= 0 \/ size[2] <= 0)) => lpc # "done"

(***************************************************************************)
(* Properties of Coord equality                                            *)
(***************************************************************************)
Compared == lpc \in {"compared", "compared back"}

\* the deviation between the two sides along each axis, in units of 1e-10
Deviation == <<Abs(lhs.x - rhs.x), Abs(lhs.y - rhs.y), Abs(lhs.z - rhs.z)>>

\* C21: two Coord values compare equal exactly when each of their x, y and z
\* components differs by strictly less than the tolerance 1e-9: a difference
\* of 1e-10 on every axis is equal, a difference of exactly 1e-9 on an axis is
\* not.
C21_EqualWithinTolerance ==
    Compared =>
        /\ equal <=> \A i \in 1..3 : Deviation[i] < 10
        /\ (\A i \in 1..3 : Deviation[i] = 1) => equal
        /\ (\E i \in 1..3 : Deviation[i] = 10) => ~equal

\* two values that differ by exactly 1e-9 along one axis and by less along the
\* two others have been compared and found not equal
C21_Witness ==
    /\ Compared
    /\ ~equal
    /\ Deviation[1] = 1
    /\ Deviation[2] = 10
    /\ Deviation[3] = 9

(***************************************************************************)
(* Properties of the Poisson-disc generator                                *)
(***************************************************************************)
InDisc == lpc \in {"seed", "pick", "attempt", "disc done"}

\* C22: at every step of the generation and in the point set it returns, no
\* two accepted points are closer than r = sqrt(2 / (pi * rho)), that is
\* pi * rho * d^2 >= 2 for the distance d of every pair.
C22_MinimumSeparation ==
    InDisc =>
        \A p, q \in disc.points :
            p # q => PiMilli * disc.density * DistanceSq(p, q) >= 2 * 1000 * 1000

\* the generator has returned three points, two of them two cells apart
C22_Witness ==
    /\ lpc = "disc done"
    /\ Cardinality(disc.points) >= 3
    /\ \E p, q \in disc.points :
           Abs(CellOf(p, disc.density)[1] - CellOf(q, disc.density)[1]) = 2

\* C23: the generation always terminates.
C23_DiscTerminates == <>(lpc = "disc done")

\* the generator has returned after retiring every point it accepted
C23_Witness ==
    /\ lpc = "disc done"
    /\ Cardinality(disc.points) >= 2
    /\ disc.active = {}

(***************************************************************************)
(* Properties of the blue-noise generator                                  *)
(***************************************************************************)
\* C24: for every target count N, 0 and 1 included, and whatever the area, the
\* blue-noise generator returns exactly N points, and it accepts exactly one
\* candidate per round out of the fixed number of candidates: the candidates
\* drawn are that number for every accepted point, plus those of the round
\* under way.
C24_BlueNoiseExactCount ==
    lpc \in {"generate", "noise done"} =>
        /\ Len(noise.points) <= noise.lattice_type[1].number
        /\ noise.drawn = NumCandidates * Len(noise.points) + Len(noise.candidates)
        /\ lpc = "noise done" =>
               /\ Len(noise.points) = noise.lattice_type[1].number
               /\ noise.candidates = <<>>

\* the generator has returned two or more points for an area of one point,
\* where every candidate falls on an accepted point
C24_Witness ==
    /\ lpc = "noise done"
    /\ noise.area = <<1, 1>>
    /\ noise.lattice_type[1].number >= 2
    /\ Len(noise.points) = noise.lattice_type[1].number

(***************************************************************************)
(* Properties of write_gromos                                              *)
(***************************************************************************)
AtomLines == SelectSeq(out.lines, LAMBDA l : l.kind = "atom")

RECURSIVE ResidueOfAtom(_, _)
\* the 1-based ordinal of the residue that holds the k-th atom of the system
ResidueOfAtom(residues, k) ==
    IF k <= Len(residues[1].base.atoms) THEN 1
    ELSE 1 + ResidueOfAtom(Tail(residues), k - Len(residues[1].base.atoms))

\* C25: the atom number of each atom line is the 1-based ordinal of the atom
\* over the whole system modulo 100,000, and its residue number is the 1-based
\* ordinal of its residue modulo 100,000.
C25_AtomNumbersAreGlobal ==
    lpc \in {"residues", "written"} =>
        \A k \in DOMAIN AtomLines :
            /\ AtomLines[k].atom_number = k % 100000
            /\ AtomLines[k].residue_number
                   = ResidueOfAtom(out.system.residues, k) % 100000

(***************************************************************************)
(* Properties of two calls of fill                                         *)
(***************************************************************************)
\* C26: two calls of fill with the same cylinder and the same fill type
\* return the same list of coordinates.
C26_FillIsDeterministic ==
    (lpc = "filled" /\ first # None) => cylinder.coords = first[1]

(***************************************************************************)
(* Properties of AtomIterator::next: termination and exhaustion            *)
(***************************************************************************)
\* the points next() walks past in one call: every recursion of next() is
\* one Rollover, which moves coord_index by one
PointsSkipped == iter'.coord_index - iter.coord_index

\* the call of next() from the current state returns, and returns None with
\* coord_index at the number of points when the residue has no atoms
NextReturns ==
    LET r == AtomIteratorNext(iter)
    IN  /\ r.iter.coord_index <= Max({NumPoints, iter.coord_index})
        /\ (IsSome(iter.residue) /\ NumAtoms = 0 /\ iter.coord_index <= NumPoints)
              => (r.item = None /\ r.iter.coord_index = NumPoints)

\* a call after a call that returned None returns None and changes nothing
NoneIsFinal == Exhausted => (ret'.item = None /\ iter' = iter /\ yielded' = yielded)

\* one call skips at most every point, and a None is final
BoundedAndFinal == PointsSkipped \in 0..NumPoints /\ NoneIsFinal

\* C27: next() terminates from every state, a residue of zero atoms over
\* P > 0 points skips the P points in at most P internal steps and returns
\* None, and after a None every later call returns None and leaves
\* atom_index, coord_index and atom_count as they were
C27_NextTerminatesAndStaysExhausted ==
[]NextReturns /\ [][BoundedAndFinal]_vars

\* a residue of zero atoms over at least one point has been asked and has
\* answered None with every point skipped
C27_Witness ==
    /\ Exhausted
    /\ IsSome(iter.residue) /\ NumAtoms = 0 /\ NumPoints > 0
    /\ iter.coord_index = NumPoints

(***************************************************************************)
(* Properties of the list menus                                            *)
(***************************************************************************)
\* the commands that edit the list, and their failures
EditCommands == {"add", "remove", "swap", "reorder"}
FailedCommands == {"add failed", "remove failed", "swap failed", "reorder failed"}

\* an aborted menu left the list it was entered with, and no add, remove,
\* swap or reorder, failed or not, ended the menu
MenuEnds ==
    /\ lpc = "menu aborted" => menu.list = menu.entered
    /\ menu.last \in EditCommands \cup FailedCommands => lpc = "menu"

\* finishing keeps the list
FinishKeeps == lpc' = "menu finished" => menu'.list = menu.list

\* C28: abort leaves the list equal, in content and order, to the list at
\* entry whatever commands came before; finish keeps the list as modified;
\* a failed add, remove or swap does not end the menu
C28_AbortRestoresFinishKeeps == []MenuEnds /\ [][FinishKeeps]_vars

\* a menu whose list had been edited was aborted
C28_Witness ==
    /\ lpc = "menu aborted"
    /\ menu.before # menu.entered
    /\ menu.list = menu.entered

\* a menu whose list had been edited was finished
C28_WitnessFinish ==
    /\ lpc = "menu finished"
    /\ menu.list # menu.entered

(***************************************************************************)
(* Properties of the component builders and of new_component               *)
(***************************************************************************)
\* a cylinder or cuboid builder has a lattice exactly when it is a Surface
LatticeIffSurface ==
    component_builder.component \in Typed
        => (IsSome(component_builder.lattice) <=> component_builder.type = "Surface")

\* a lattice selection that fails during a change of type leaves the type
\* and the lattice of the builder as they were
FailedSelectionKeeps ==
    component_builder'.last = "select_lattice failed"
        => /\ component_builder'.type = component_builder.type
           /\ component_builder'.lattice = component_builder.lattice

\* C29: in every state of the cylinder and cuboid menus the lattice of the
\* builder is set if and only if its type is Surface, so the unwrap in
\* finalize never panics, and a failed lattice selection during a change of
\* type changes neither the type nor the lattice
C29_LatticeIffSurface ==
    [](LatticeIffSurface /\ lpc # "finalize panicked") /\ [][FailedSelectionKeeps]_vars

\* a Volume builder has just been changed to a Surface and has its lattice
C29_Witness ==
    /\ lpc = "create"
    /\ component_builder.component \in Typed
    /\ component_builder.last = "type changed"
    /\ component_builder.type = "Surface"
    /\ IsSome(component_builder.lattice)
    /\ component_builder.density # None

\* what new_component returned
Returned == Unwrap(component_builder.result)
HasReturned == lpc = "new_component done"

\* a returned component has a name
NamedResult == (HasReturned /\ Returned.ok) => Returned.name # ""

\* the errors of a construction menu
ConstructionErrors == {"initialize failed", "select_lattice failed", "select_command failed"}

\* a request to change the component and an error that is no Abort lead
\* back to the selection of the component type
BackToSelection ==
    /\ component_builder.last = "change component" => lpc = "select_component_type"
    /\ component_builder.last \in ConstructionErrors
          => \/ lpc = "select_component_type"
             \/ HasReturned /\ ~Returned.ok /\ Returned.kind = "Abort"

\* finalize with an empty name is refused and the menu goes on
EmptyNameRefused ==
    (/\ lpc = "create"
     /\ component_builder.name = ""
     /\ component_builder'.last \in {"finalized", "finalize refused", "finalize panicked"})
        => (component_builder'.last = "finalize refused" /\ lpc' = "create")

\* new_component ends with a component or with Abort
EndsWithComponentOrAbort == HasReturned => (Returned.ok \/ Returned.kind = "Abort")

\* new_component ends with a component, with Abort, or with the error of a
\* failed selection of the component type
EndsWithComponentAbortOrSelectionError ==
    HasReturned => \/ Returned.ok
                   \/ Returned.kind = "Abort"
                   \/ component_builder.last = "select_component_type failed"

\* C30 as stated: a returned component has a name, an empty name is refused
\* and the menu continues, new_component ends only with a component or an
\* Abort error, and a change of component or a non-abort construction error
\* returns to the selection of the component type
C30_EndsOnlyWithComponentOrAbort ==
    [](NamedResult /\ BackToSelection /\ EndsWithComponentOrAbort) /\ [][EmptyNameRefused]_vars

\* C30 amended: as stated, but new_component also ends with the error of a
\* failed selection of the component type, whatever its kind
C30_EndsWithComponentAbortOrSelectionError ==
    [](NamedResult /\ BackToSelection /\ EndsWithComponentAbortOrSelectionError)
        /\ [][EmptyNameRefused]_vars

\* new_component has ended with an error that is no Abort
C30_Witness ==
    /\ HasReturned
    /\ ~Returned.ok
    /\ Returned.kind # "Abort"
    /\ component_builder.last = "select_component_type failed"

\* new_component has returned a component, which has its name
C30_WitnessComponent ==
    /\ HasReturned
    /\ Returned.ok
    /\ Returned.name # ""

====
